---- MODULE Spec2Model ----
(***************************************************************************)
(* Recursive document analysis: the bounded concurrency pool               *)
(* (processWithPool / streamWithPool, in the three versions the repository *)
(* holds) and the streamed analysis route that drives it.                  *)
(***************************************************************************)
EXTENDS Integers, Sequences, FiniteSets, TLC

\* ------------------------------------------------------------------ bounds
MaxItems == 3
MaxConcurrency == 3
\* How many extra loop rounds of the Promise.race driver are explored once
\* every item has been completed.  The loop itself has no bound: where the
\* model stops at the cap, the code goes round the same loop again, pushing
\* the same result, and reaches neither its return nor a throw.
MaxSpin == 2

\* ------------------------------------------------------------------ values
None == -1

Impls == {"race", "worker", "legacy"}

\* What a processor invocation resolves with.  The stand-alone pool is run
\* with two distinguishable outputs; the route's processor is the oracle
\* sub-call (see Responses).
NoResult == [content |-> "unset", usage |-> None]
TestOutputs == {[content |-> "a", usage |-> None], [content |-> "b", usage |-> None]}

VARIABLES
  \* ---- the pool invocation (closure state of processWithPool / streamWithPool)
  impl,          \* which version of concurrency.ts runs
  nItems,        \* items.length
  concurrency,   \* options.concurrency
  nextIndex,     \* let nextIndex
  completed,     \* let completed
  results,       \* const results: PoolResult[]
  proc,          \* per item: state of the promise processor(items[i], i) returned
  procResult,    \* per item: the value that promise fulfilled with
  inFlight,      \* race version: the Map of in-flight promises, in insertion order
  winner,        \* race version: the promise the pending Promise.race settled with
  workerItem,    \* worker versions: per worker, the index it awaits (None: finished)
  poolPc,        \* "idle" | "running" | "returned" | "thrown"
  \* ---- observation of the pool
  progress,      \* the onProgress invocations so far: <<completed, total, results.length>>
  order,         \* the indices in the order their processor invocations completed
  \* ---- streamWithPool
  resultQueue,   \* const resultQueue: PoolResult[]
  yielded,       \* the PoolResults the generator has yielded, in order
  genPc,         \* "notStarted" | "waiting" | "woken" | "suspended" | "done" | "thrown"
  allDone,       \* let allDone
  resolveWaiting,\* let resolveWaiting / resolveNext is set
  handoff,       \* legacy version: the result passed straight to resolveNext
  \* ---- the streamed analysis route (POST /api/analyze-stream)
  routePc,       \* "none" (no route run) | "init" | "awaitAnswer" | "awaitPool"
                 \* | "awaitAggregate" | "awaitRewrite" | "done"
  mode,          \* body.mode
  configOk,      \* the root deployment is configured
  nChunks,       \* chunks.length, what buildChunks produced
  maxSubcallsOpt,\* options.maxSubcalls
  comprehensiveMode, \* options.comprehensiveMode
  events,        \* what controller.enqueue has put on the stream, in order
  closed,        \* controller.close() has run
  usage,         \* let usage (None: undefined)
  draft,         \* the answer of the answer/aggregation call, before the rewrite
  findings,      \* const findings: SubFinding[]
  oracleFailed,  \* an answer, aggregation or rewrite call has thrown
  response,      \* the data of the result event (<<>>: none sent)
  credentialsOk, \* endpoint, API key and API version are configured
  nScoring,      \* how many chunks score > 0 against the question
  topK,          \* options.topK
  calls,         \* the answer, aggregation and rewrite calls issued, in order
  chunked,       \* buildChunks has run
  graph,         \* const graph: KnowledgeGraph (<<>>: not built)
  syncResponse,  \* what the synchronous analyze returned (<<>>: not run)
  \* ---- the Graph Builder (parseGraphSubResult's filter, mergeEntities, buildGraph)
  rawEntities,   \* the entities of the oracle's JSON, over all chunks, in order
  rawRelationships, \* the relationships of the oracle's JSON, in order
  extractions,   \* [entities, relationships] that passed the parser's filter
  merged,        \* const merged / mergedEntities: RawEntity[], in creation order
  members,       \* per merged entry: the work-list indices of the entities merged into it
  entityAt,      \* how many entities of the work list mergeEntities has processed
  nodes,         \* graph.nodes
  edges,         \* graph.edges
  relAt,         \* how many relationships buildGraph has processed
  graphPc,       \* "none" | "parse" | "merge" | "ids" | "edges" | "done"
  \* ---- the Chunker (buildChunks over one document)
  parts,         \* what text.split(/\n\s*\n/) gives: the trimmed length of each part
  chunkSize,     \* options.chunkSize
  buffer,        \* let buffer: the paragraphs joined in it
  startOffset,   \* let startOffset
  chunkIndex,    \* let chunkIndex
  cursor,        \* let cursor
  chunks,        \* const chunks: Chunk[]
  paraAt,        \* how many paragraphs the forEach has visited
  chunkPc        \* "none" | "loop" | "done"

poolVars == <<impl, nItems, concurrency, nextIndex, completed, results, proc,
              procResult, inFlight, winner, workerItem, poolPc, progress, order>>
streamVars == <<resultQueue, yielded, genPc, allDone, resolveWaiting, handoff>>
inputs == <<mode, configOk, credentialsOk, nChunks, nScoring, topK, maxSubcallsOpt,
            comprehensiveMode>>
routeRest == <<routePc, inputs, closed, usage, draft, findings, oracleFailed, response,
               calls, chunked, graph, syncResponse>>
routeVars == <<routeRest, events>>
graphVars == <<rawEntities, rawRelationships, extractions, merged, members, entityAt,
               nodes, edges, relAt, graphPc>>
chunkVars == <<parts, chunkSize, buffer, startOffset, chunkIndex, cursor, chunks, paraAt,
               chunkPc>>
libVars == <<graphVars, chunkVars>>
vars == <<poolVars, streamVars, routeVars, libVars>>

Indices == 0 .. (MaxItems - 1)
Workers == 1 .. MaxConcurrency

Min(a, b) == IF a < b THEN a ELSE b

\* items[k]: the caller's k-th item (the k-th chunk when the route calls).
ItemAt(k) == 10 + k

PoolResult(i, r) == [item |-> ItemAt(i), result |-> r, index |-> i]

Pending == {i \in Indices : proc[i] = "pending"}
Settled(p) == p \in {"fulfilled", "rejected"}

\* results.sort((a, b) => a.index - b.index): a stable insertion sort.
RECURSIVE InsertByIndex(_, _)
InsertByIndex(sorted, e) ==
  IF sorted = <<>> THEN <<e>>
  ELSE IF Head(sorted).index <= e.index
       THEN <<Head(sorted)>> \o InsertByIndex(Tail(sorted), e)
       ELSE <<e>> \o sorted

RECURSIVE SortByIndexFrom(_, _)
SortByIndexFrom(done, rest) ==
  IF rest = <<>> THEN done
  ELSE SortByIndexFrom(InsertByIndex(done, Head(rest)), Tail(rest))

\* (results returned in the order they were pushed)
KeepPushOrder(rs) == rs

SortByIndex(rs) == SortByIndexFrom(<<>>, rs)

\* ------------------------------------------------- processWithPool: shared
\* const initialBatch / numWorkers = Math.min(concurrency, items.length)
InitialBatchOf(n) == Min(concurrency, n)
InitialBatch == InitialBatchOf(nItems)

\* onProgress(completed, total), called right after results.push
OnProgress(log, c, total, recorded) == Append(log, <<c, total, recorded>>)

\* ---------------------------------------------------- worker loops: shared
\* The workers a streamWithPool call starts: Math.min(concurrency, items.length)
StartWorkers ==
  /\ nextIndex' = InitialBatch
  /\ proc' = [i \in Indices |-> IF i < InitialBatch THEN "pending" ELSE proc[i]]
  /\ workerItem' = [w \in Workers |-> IF w <= InitialBatch THEN w - 1 ELSE None]

\* (a worker that returns after its first item: lock-step batches)
ReturnAfterItem(w, i) ==
  /\ workerItem' = [workerItem EXCEPT ![w] = None]
  /\ proc' = [proc EXCEPT ![i] = "fulfilled"]
  /\ UNCHANGED nextIndex

\* A worker goes round its loop: it takes the next index, or returns.
TakeNext(w, i) ==
  IF nextIndex >= nItems
    THEN /\ workerItem' = [workerItem EXCEPT ![w] = None]
         /\ proc' = [proc EXCEPT ![i] = "fulfilled"]
         /\ UNCHANGED nextIndex
    ELSE /\ workerItem' = [workerItem EXCEPT ![w] = nextIndex]
         /\ proc' = [proc EXCEPT ![i] = "fulfilled", ![nextIndex] = "pending"]
         /\ nextIndex' = nextIndex + 1

AnyRejected == \E i \in Indices : proc[i] = "rejected"

\* ------------------------------------------ processWithPool: Promise.race
\* The keys of inFlight are the promises processor(...).then(...); what
\* Promise.race resolves with is the VALUE of the promise that settled first.
PromiseOf(i) == [promise |-> i]
ValueOf(i) == [index |-> i, result |-> procResult[i]]

\* Map.prototype.delete(key): removes the entry whose key is `key`, if any.
MapDelete(map, key) == SelectSeq(map, LAMBDA k : k # key)

\* Promise.race(inFlight.keys()) when some of the promises have already
\* settled: the first of them in iteration (insertion) order wins; None when
\* all are still pending, and then the first one to settle afterwards wins.
FirstSettled(map, p) ==
  LET hits == {j \in 1 .. Len(map) : Settled(p[map[j].promise])}
  IN IF hits = {} THEN None
     ELSE map[CHOOSE j \in hits : \A h \in hits : j <= h].promise

\* const startNext = () => { if (nextIndex >= items.length) return; ... }
StartNextIndex(nx) == IF nx >= nItems THEN nx ELSE nx + 1
StartNextProc(nx, p) == IF nx >= nItems THEN p ELSE [p EXCEPT ![nx] = "pending"]
StartNextMap(nx, map) == IF nx >= nItems THEN map ELSE Append(map, PromiseOf(nx))

\* processWithPool(items, processor, options) over n items, up to its first
\* await (or to its return, when nothing is awaited)
PoolStart(n) ==
  /\ poolPc = "idle"
  /\ nItems' = n
  /\ IF n = 0 /\ impl # "legacy"
       THEN /\ poolPc' = "returned"
            /\ UNCHANGED <<nextIndex, proc, inFlight, workerItem>>
       ELSE /\ nextIndex' = InitialBatchOf(n)
            /\ proc' = [i \in Indices |-> IF i < InitialBatchOf(n) THEN "pending" ELSE proc[i]]
            /\ IF impl = "race"
                 THEN /\ inFlight' = [j \in 1 .. InitialBatchOf(n) |-> PromiseOf(j - 1)]
                      /\ poolPc' = IF InitialBatchOf(n) = 0 THEN "returned" ELSE "running"
                      /\ UNCHANGED workerItem
                 ELSE /\ workerItem' = [w \in Workers |->
                                          IF w <= InitialBatchOf(n) THEN w - 1 ELSE None]
                      /\ poolPc' = "running"
                      /\ UNCHANGED inFlight
  /\ UNCHANGED <<impl, concurrency, completed, results, procResult,
                 winner, progress, order, streamVars>>

processWithPool ==
  /\ routePc = "none"
  /\ PoolStart(nItems)
  /\ UNCHANGED <<routeVars, libVars>>

\* A processor invocation of the race version settles (the promise is held
\* in inFlight; a pending Promise.race settles with the first one to do so).
Racing == poolPc = "running" \/ genPc = "waiting"

processorSettles(i, ok, val) ==
  /\ impl = "race"
  /\ proc[i] = "pending"
  /\ proc' = [proc EXCEPT ![i] = IF ok THEN "fulfilled" ELSE "rejected"]
  /\ procResult' = [procResult EXCEPT ![i] = IF ok THEN val ELSE NoResult]
  /\ order' = Append(order, i)
  /\ winner' = IF Racing /\ winner = None THEN i ELSE winner
  /\ UNCHANGED <<impl, nItems, concurrency, nextIndex, completed, results,
                 inFlight, workerItem, poolPc, progress, streamVars, routeVars, libVars>>

\* One round of `while (inFlight.size > 0)`, from the resumption of
\* `await Promise.race(...)` to the next await (or to the return).
raceLoop ==
  /\ impl = "race"
  /\ poolPc = "running"
  /\ winner # None
  /\ completed < nItems + MaxSpin
  /\ IF proc[winner] = "rejected"
       THEN /\ poolPc' = "thrown"
            /\ winner' = None
            /\ UNCHANGED <<nextIndex, completed, results, proc, inFlight, progress>>
       ELSE LET deleted == MapDelete(inFlight, ValueOf(winner))
                pushed == Append(results, PoolResult(winner, procResult[winner]))
                map == StartNextMap(nextIndex, deleted)
                p == StartNextProc(nextIndex, proc)
            IN /\ completed' = completed + 1
               /\ progress' = OnProgress(progress, completed + 1, nItems, Len(pushed))
               /\ nextIndex' = StartNextIndex(nextIndex)
               /\ proc' = p
               /\ inFlight' = map
               /\ IF Len(map) > 0
                    THEN /\ winner' = FirstSettled(map, p)
                         /\ results' = pushed
                         /\ UNCHANGED poolPc
                    ELSE /\ winner' = None
                         /\ results' = SortByIndex(pushed)
                         /\ poolPc' = "returned"
  /\ UNCHANGED <<impl, nItems, concurrency, procResult, workerItem, order, streamVars, routeVars, libVars>>

\* ------------------------------------------- processWithPool: worker loop
\* What the caller's onProgress does.  The route's callback logs
\* `Completed c/total chunks` through send(), and controller.enqueue throws
\* once the stream is closed; the stand-alone caller's callback only records.
\* (the same callback over a stream whose enqueue never throws)
ProgressNeverThrows == FALSE

ProgressThrows == routePc # "none" /\ closed

ProgressEvent(c) == [type |-> "log", msg |-> "Completed", n |-> c, data |-> <<>>]

\* The body of `while (true)` after `await processor(item, currentIndex)`
\* resumes, up to the next await of the same worker (or its return).
WorkerStep(w, ok, val) ==
  LET i == workerItem[w] IN
  /\ i # None
  /\ proc[i] = "pending"
  /\ IF ok
       THEN LET pushed == Append(results, PoolResult(i, val)) IN
            /\ procResult' = [procResult EXCEPT ![i] = val]
            /\ results' = pushed
            /\ completed' = completed + 1
            /\ progress' = OnProgress(progress, completed + 1, nItems, Len(pushed))
            /\ IF ProgressThrows
                 THEN \* onProgress throws: this worker's promise rejects
                      /\ workerItem' = [workerItem EXCEPT ![w] = None]
                      /\ proc' = [proc EXCEPT ![i] = "fulfilled"]
                      /\ poolPc' = IF poolPc = "running" THEN "thrown" ELSE poolPc
                      /\ UNCHANGED <<nextIndex, events>>
                 ELSE /\ events' = IF routePc = "none" THEN events
                                   ELSE Append(events, ProgressEvent(completed + 1))
                      /\ TakeNext(w, i)
                      /\ UNCHANGED poolPc
       ELSE \* the worker's promise rejects, and with it Promise.all(workers)
            /\ proc' = [proc EXCEPT ![i] = "rejected"]
            /\ workerItem' = [workerItem EXCEPT ![w] = None]
            /\ poolPc' = IF poolPc = "running" THEN "thrown" ELSE poolPc
            /\ UNCHANGED <<procResult, results, completed, progress, nextIndex, events>>
  /\ UNCHANGED <<impl, nItems, concurrency, inFlight, winner, order, streamVars, routeRest, libVars>>

worker(w, ok, val) == impl = "worker" /\ poolPc # "idle" /\ WorkerStep(w, ok, val)

runWorker(w, ok, val) == impl = "legacy" /\ poolPc # "idle" /\ WorkerStep(w, ok, val)

\* await Promise.all(workers); results.sort(...); return results
awaitWorkers ==
  /\ impl \in {"worker", "legacy"}
  /\ poolPc = "running"
  /\ \A w \in Workers : workerItem[w] = None
  /\ results' = SortByIndex(results)
  /\ poolPc' = "returned"
  /\ UNCHANGED <<impl, nItems, concurrency, nextIndex, completed, proc, procResult,
                 inFlight, winner, workerItem, progress, order, streamVars, routeVars, libVars>>

\* ------------------------------------------- streamWithPool: Promise.race
\* The first next(): the generator body up to `await Promise.race(...)`.
streamRaceStart ==
  /\ impl = "race"
  /\ genPc = "notStarted"
  /\ IF nItems = 0 \/ InitialBatch = 0
       THEN /\ genPc' = "done"
            /\ UNCHANGED <<nextIndex, proc, inFlight>>
       ELSE /\ nextIndex' = InitialBatch
            /\ proc' = [i \in Indices |-> IF i < InitialBatch THEN "pending" ELSE proc[i]]
            /\ inFlight' = [j \in 1 .. InitialBatch |-> PromiseOf(j - 1)]
            /\ genPc' = "waiting"
  /\ UNCHANGED <<impl, nItems, concurrency, completed, results, procResult, winner,
                 workerItem, poolPc, progress, order, resultQueue, yielded, allDone,
                 resolveWaiting, handoff, routeVars, libVars>>

\* `await Promise.race(...)` resumes: delete, then `yield`.
streamRaceYield ==
  /\ impl = "race"
  /\ genPc = "waiting"
  /\ winner # None
  /\ Len(yielded) < nItems + MaxSpin
  /\ winner' = None
  /\ IF proc[winner] = "rejected"
       THEN /\ genPc' = "thrown"
            /\ UNCHANGED <<inFlight, yielded>>
       ELSE /\ inFlight' = MapDelete(inFlight, ValueOf(winner))
            /\ yielded' = Append(yielded, PoolResult(winner, procResult[winner]))
            /\ genPc' = "suspended"
  /\ UNCHANGED <<impl, nItems, concurrency, nextIndex, completed, results, proc,
                 procResult, workerItem, poolPc, progress, order, resultQueue, allDone,
                 resolveWaiting, handoff, routeVars, libVars>>

\* The consumer asks for the next value: startNext(), then the loop test and
\* the next Promise.race.
streamRaceNext ==
  /\ impl = "race"
  /\ genPc = "suspended"
  /\ LET map == StartNextMap(nextIndex, inFlight)
         p == StartNextProc(nextIndex, proc)
     IN /\ nextIndex' = StartNextIndex(nextIndex)
        /\ proc' = p
        /\ inFlight' = map
        /\ IF Len(map) > 0
             THEN genPc' = "waiting" /\ winner' = FirstSettled(map, p)
             ELSE genPc' = "done" /\ winner' = None
  /\ UNCHANGED <<impl, nItems, concurrency, completed, results, procResult,
                 workerItem, poolPc, progress, order, resultQueue, yielded, allDone,
                 resolveWaiting, handoff, routeVars, libVars>>

\* ------------------------------------------- streamWithPool: worker loop
\* while (!allDone || resultQueue.length > 0) { ... }: one round, up to the
\* yield, the await, or the end of the generator.
StreamLoop ==
  IF Len(resultQueue) > 0
    THEN /\ yielded' = Append(yielded, Head(resultQueue))
         /\ resultQueue' = Tail(resultQueue)
         /\ genPc' = "suspended"
         /\ UNCHANGED resolveWaiting
    ELSE IF ~allDone
      THEN /\ resolveWaiting' = TRUE
           /\ genPc' = "waiting"
           /\ UNCHANGED <<yielded, resultQueue>>
      ELSE /\ genPc' = "done"
           /\ UNCHANGED <<yielded, resultQueue, resolveWaiting>>

\* The first next(): the generator body up to its first await.
streamWithPool ==
  /\ impl = "worker"
  /\ genPc = "notStarted"
  /\ IF nItems = 0
       THEN /\ genPc' = "done"
            /\ UNCHANGED <<nextIndex, proc, workerItem, resolveWaiting>>
       ELSE /\ StartWorkers
            /\ resolveWaiting' = TRUE
            /\ genPc' = "waiting"
  /\ UNCHANGED <<impl, nItems, concurrency, completed, results, procResult, inFlight,
                 winner, poolPc, progress, order, resultQueue, yielded, allDone, handoff, routeVars, libVars>>

\* A worker resumes after `await processor(...)`: completed += 1; pushResult.
streamWorker(w, ok, val) ==
  LET i == workerItem[w] IN
  /\ impl = "worker"
  /\ genPc # "notStarted"
  /\ i # None
  /\ proc[i] = "pending"
  /\ order' = Append(order, i)
  /\ IF ok
       THEN /\ procResult' = [procResult EXCEPT ![i] = val]
            /\ completed' = completed + 1
            /\ resultQueue' = Append(resultQueue, PoolResult(i, val))
            /\ resolveWaiting' = FALSE
            /\ genPc' = IF resolveWaiting /\ genPc = "waiting" THEN "woken" ELSE genPc
            /\ TakeNext(w, i)
       ELSE /\ proc' = [proc EXCEPT ![i] = "rejected"]
            /\ workerItem' = [workerItem EXCEPT ![w] = None]
            /\ UNCHANGED <<procResult, completed, resultQueue, resolveWaiting, genPc,
                           nextIndex>>
  /\ UNCHANGED <<impl, nItems, concurrency, results, inFlight, winner, poolPc,
                 progress, yielded, allDone, handoff, routeVars, libVars>>

\* Promise.all(workers).then(() => { allDone = true; resolveWaiting?.() })
streamAllDone ==
  /\ impl = "worker"
  /\ genPc \notin {"notStarted", "done"}
  /\ ~allDone
  /\ \A w \in Workers : workerItem[w] = None
  /\ ~AnyRejected
  /\ allDone' = TRUE
  /\ genPc' = IF resolveWaiting /\ genPc = "waiting" THEN "woken" ELSE genPc
  /\ UNCHANGED <<poolVars, resultQueue, yielded, resolveWaiting, handoff, routeVars, libVars>>

\* The awaited promise resolved: the generator goes round its loop.
streamResume ==
  /\ impl = "worker"
  /\ genPc = "woken"
  /\ StreamLoop
  /\ UNCHANGED <<poolVars, allDone, handoff, routeVars, libVars>>

\* The consumer asks for the next value after a yield.
streamNext ==
  /\ impl = "worker"
  /\ genPc = "suspended"
  /\ StreamLoop
  /\ UNCHANGED <<poolVars, allDone, handoff, routeVars, libVars>>

\* ------------------------------------------------ streamWithPool: legacy
\* while (completed < items.length || resultQueue.length > 0) {
\*   const result = await getNext(); if (result === null) break; yield result }
\* await workersPromise
LegacyLoop ==
  IF completed < nItems \/ Len(resultQueue) > 0
    THEN IF Len(resultQueue) > 0
           THEN /\ yielded' = Append(yielded, Head(resultQueue))
                /\ resultQueue' = Tail(resultQueue)
                /\ genPc' = "suspended"
                /\ UNCHANGED resolveWaiting
           ELSE /\ resolveWaiting' = TRUE
                /\ genPc' = "waiting"
                /\ UNCHANGED <<yielded, resultQueue>>
    ELSE /\ genPc' = IF AnyRejected THEN "thrown" ELSE "done"
         /\ UNCHANGED <<yielded, resultQueue, resolveWaiting>>

legacyStreamWithPool ==
  /\ impl = "legacy"
  /\ genPc = "notStarted"
  /\ StartWorkers
  /\ IF nItems > 0
       THEN resolveWaiting' = TRUE /\ genPc' = "waiting"
       ELSE genPc' = "done" /\ UNCHANGED resolveWaiting
  /\ UNCHANGED <<impl, nItems, concurrency, completed, results, procResult, inFlight,
                 winner, poolPc, progress, order, resultQueue, yielded, allDone, handoff, routeVars, libVars>>

\* A worker resumes after `await processor(...)`: completed += 1; pushResult,
\* which hands the result straight to a waiting getNext() or queues it.
legacyStreamWorker(w, ok, val) ==
  LET i == workerItem[w] IN
  /\ impl = "legacy"
  /\ genPc # "notStarted"
  /\ i # None
  /\ proc[i] = "pending"
  /\ order' = Append(order, i)
  /\ IF ok
       THEN /\ procResult' = [procResult EXCEPT ![i] = val]
            /\ completed' = completed + 1
            /\ IF resolveWaiting
                 THEN /\ resolveWaiting' = FALSE
                      /\ handoff' = <<PoolResult(i, val)>>
                      /\ genPc' = "woken"
                      /\ UNCHANGED resultQueue
                 ELSE /\ resultQueue' = Append(resultQueue, PoolResult(i, val))
                      /\ UNCHANGED <<resolveWaiting, handoff, genPc>>
            /\ TakeNext(w, i)
       ELSE /\ proc' = [proc EXCEPT ![i] = "rejected"]
            /\ workerItem' = [workerItem EXCEPT ![w] = None]
            /\ UNCHANGED <<procResult, completed, resultQueue, resolveWaiting, genPc,
                           nextIndex, handoff>>
  /\ UNCHANGED <<impl, nItems, concurrency, results, inFlight, winner, poolPc,
                 progress, yielded, allDone, routeVars, libVars>>

\* `await getNext()` resumes with the handed-over result, which is yielded.
legacyStreamResume ==
  /\ impl = "legacy"
  /\ genPc = "woken"
  /\ yielded' = Append(yielded, Head(handoff))
  /\ handoff' = <<>>
  /\ genPc' = "suspended"
  /\ UNCHANGED <<poolVars, resultQueue, allDone, resolveWaiting, routeVars, libVars>>

\* The consumer asks for the next value after a yield.
legacyStreamNext ==
  /\ impl = "legacy"
  /\ genPc = "suspended"
  /\ LegacyLoop
  /\ UNCHANGED <<poolVars, allDone, handoff, routeVars, libVars>>

\* ------------------------------------------------- the oracle's answers
\* The text of a sub-call answer, by what the parser can tell apart:
\*   "prose"        no "{" ... "}" pair
\*   "badjson"      braces around text that JSON.parse rejects
\*   "irrelevant"   {"relevant": false, "summary": "", "citations": []}
\*   "relevant"     {"relevant": true, "summary": "s", "citations": ["c"]}
\*   "nocitations"  {"relevant": true, "summary": "s"}
\*   "strcitations" {"relevant": true, "summary": "s", "citations": "c"}
\*   "graphjson"    {"finding": {"relevant": true, "summary": "s", "citations": ["c"]},
\*                   "extraction": {"entities": [{"type": "party", "name": "n"}]}}
\*   "badentities"  {"relevant": true, "summary": "s", "extraction": {"entities": "n"}}
\* where "c" is the ID of some chunk other than the one analysed.
SubShapes == {"prose", "badjson", "irrelevant", "relevant", "nocitations", "strcitations",
              "graphjson", "badentities"}

\* usage?.totalTokens of an answer (None: no usage reported)
UsageVals == {None, 3}

\* What chatCompletion resolves with for a sub-call.
Responses ==
  {[content |-> "prose", usage |-> None], [content |-> "badjson", usage |-> 3],
   [content |-> "irrelevant", usage |-> 3], [content |-> "relevant", usage |-> 3],
   [content |-> "nocitations", usage |-> 3], [content |-> "strcitations", usage |-> 3],
   [content |-> "graphjson", usage |-> 3], [content |-> "badentities", usage |-> 3]}

\* The content of an answer, aggregation or rewrite call: empty,
\* whitespace only, or text.
AnswerContents == {"", " ", "text"}

\* --------------------------------------------------------- Result Parser
\* extractJson(text): the slice from the first "{" to the last "}", or null
extractJson(text) == IF text = "prose" THEN "null" ELSE text

\* JSON.parse(json) throws
JsonParseThrows(json) == json = "badjson"

\* parsed.relevant, parsed.citations of the parsed object
ParsedRelevant(json) == json \in {"relevant", "nocitations", "strcitations", "badentities"}
ParsedCitations(json) ==
  CASE json = "relevant" -> "array"
    [] json = "strcitations" -> "string"
    [] json = "irrelevant" -> "emptyArray"
    [] OTHER -> "undefined"

\* findingData = parsed.finding ?? parsed: its relevant and citations
FindingRelevant(json) == json = "graphjson" \/ ParsedRelevant(json)
FindingCitations(json) == IF json = "graphjson" THEN "array" ELSE ParsedCitations(json)

\* (extractionData.entities ?? []).filter(...) throws when entities is no array
ExtractionThrows(json) == json = "badentities"

\* parsed.summary ?? "", findingData.summary ?? ""
ParsedSummary(json) == IF ParsedRelevant(json) THEN "s" ELSE ""
FindingSummary(json) == IF FindingRelevant(json) THEN "s" ELSE ""

\* (a fallback that cites the chunk, as a parsed finding without citations does)
FallbackCitingChunk(chunk) ==
  [relevant |-> FALSE, summary |-> "", citations |-> "own", chunkId |-> chunk]

Fallback(chunk) ==
  [relevant |-> FALSE, summary |-> "", citations |-> "emptyArray", chunkId |-> chunk]

\* parsed.citations && parsed.citations.length > 0 ? parsed.citations : [chunk.id]
\* ("own" stands for [chunk.id]; a non-empty string has a length > 0 too)
CitationsOrOwn(c) == IF c \in {"array", "string"} THEN c ELSE "own"

parseSubFinding(text, chunk) ==
  IF extractJson(text) = "null"
    THEN Fallback(chunk)
    ELSE IF JsonParseThrows(extractJson(text))
      THEN Fallback(chunk)
      ELSE [relevant |-> ParsedRelevant(extractJson(text)),
            summary |-> ParsedSummary(extractJson(text)),
            citations |-> CitationsOrOwn(ParsedCitations(extractJson(text))),
            chunkId |-> chunk]

\* parseGraphSubResult(text, chunk).finding
parseGraphSubResult(text, chunk) ==
  IF extractJson(text) = "null"
    THEN Fallback(chunk)
    ELSE IF JsonParseThrows(extractJson(text)) \/ ExtractionThrows(extractJson(text))
      THEN Fallback(chunk)
      ELSE [relevant |-> FindingRelevant(extractJson(text)),
            summary |-> FindingSummary(extractJson(text)),
            citations |-> CitationsOrOwn(FindingCitations(extractJson(text))),
            chunkId |-> chunk]

\* parseGraphSubResult(text, chunk).extraction: has valid entities, or is empty
parseGraphExtraction(text) ==
  IF extractJson(text) = "null"
    THEN "empty"
    ELSE IF JsonParseThrows(extractJson(text)) \/ ExtractionThrows(extractJson(text))
      THEN "empty"
      ELSE IF extractJson(text) = "graphjson" THEN "entities" ELSE "empty"

\* (an addUsage that keeps the last count instead of adding it)
addUsageLast(total, next) ==
  IF next = None \/ next = 0 THEN total ELSE next

\* const addUsage = (total, next) => ...
addUsage(total, next) ==
  IF next = None \/ next = 0 THEN total
  ELSE (IF total = None THEN 0 ELSE total) + next

\* ------------------------------------------------------ streamed route
Modes == {"base", "retrieval", "rlm", "rlm-graph"}

\* body.mode is read from the request's JSON unchecked (`as AnalyzeRequest`):
\* besides the four modes it can be any other string ("other"), or be absent
\* ("undefined").
RequestModes == Modes \cup {"other", "undefined"}
MaxChunks == 2

Log(msg) == [type |-> "log", msg |-> msg, n |-> 0, data |-> <<>>]
Event(type) == [type |-> type, msg |-> "", n |-> 0, data |-> <<>>]
DataEvent(type, data) == [type |-> type, msg |-> "", n |-> 0, data |-> <<data>>]

\* (a catch block that logs the error but forgets the `error` event)
CatchSilently ==
  /\ events' = Append(events, Log("Error"))
  /\ closed' = TRUE
  /\ routePc' = "done"

\* catch (error) { send(error log); send({type: "error"}) } finally { controller.close() }
Catch ==
  /\ events' = events \o <<Log("Error"), Event("error")>>
  /\ closed' = TRUE
  /\ routePc' = "done"

\* send({type: "result", data}) as the last statement of the try block, then finally
SendResult(evs, data) ==
  /\ events' = evs \o <<Log("Analysis complete!"), DataEvent("result", data)>>
  /\ response' = <<data>>
  /\ closed' = TRUE
  /\ routePc' = "done"

\* chunks.slice(0, end).length
SliceLen(len, end) ==
  IF end < 0 THEN (IF len + end > 0 THEN len + end ELSE 0) ELSE Min(end, len)

\* const maxSubcalls = options.comprehensiveMode ? chunks.length : Math.min(...)
maxSubcalls == IF comprehensiveMode THEN nChunks ELSE Min(maxSubcallsOpt, nChunks)

Recursive == mode \in {"rlm", "rlm-graph"}

\* rankChunks(chunks, question, topK).length: the chunks that score > 0,
\* sorted, .slice(0, topK)
RankedLen == SliceLen(nScoring, topK)

\* const snippets = ranked.length > 0 ? ranked : chunks.slice(0, options.topK)
\* (which chunks, and how many)
SnippetsSource == IF RankedLen > 0 THEN "ranked" ELSE "firstTopK"

\* (the ranked chunks used as they are, without the fallback)
SnippetsLenNoFallback == RankedLen

SnippetsLen == IF RankedLen > 0 THEN RankedLen ELSE SliceLen(nChunks, topK)

\* chatCompletion(...) is called: getClient() throws when the endpoint, the
\* key or the API version is missing, and the call rejects before a request
\* is made; otherwise the request is outstanding until it settles.
IssueCall(cs, kind, prompt, at) ==
  Append(cs, [kind |-> kind, prompt |-> prompt, at |-> at,
              content |-> "pending", usage |-> None])

\* The outstanding call settles with this content and usage.
SettleCall(cs, content, u) ==
  [cs EXCEPT ![Len(cs)].content = content, ![Len(cs)].usage = u]

\* (a blank test that forgets to trim)
trimForgotten(text) == text

\* answer.trim()
trim(text) == IF text = " " THEN "" ELSE text

\* POST, from the start of the stream to its first await
POST ==
  /\ routePc = "init"
  /\ IF ~configOk \/ mode = "undefined"
       THEN \* getRootDeployment throws, or mode.toUpperCase() does
            /\ Catch
            /\ UNCHANGED <<poolVars, response, calls, chunked>>
       ELSE IF mode \notin Modes
         THEN \* no branch of the if / else-if chain is taken: finally
              /\ events' = events \o <<Log("Initializing"), Log("Processing")>>
              /\ closed' = TRUE
              /\ routePc' = "done"
              /\ UNCHANGED <<poolVars, response, calls, chunked>>
       ELSE IF ~Recursive
         THEN /\ events' = events \o
                   (IF mode = "base"
                      THEN <<Log("Initializing"), Log("Processing"), Log("Building"),
                             Log("Sending")>>
                      ELSE <<Log("Initializing"), Log("Processing"), Log("Chunking"),
                             Log("Created"), Log("Ranking"), Log("Selected"),
                             Log("Sending")>>)
              /\ chunked' = (mode = "retrieval")
              /\ calls' = IssueCall(calls, "answer",
                                    IF mode = "base" THEN "documents" ELSE SnippetsSource,
                                    Len(events'))
              /\ routePc' = "awaitAnswer"
              /\ UNCHANGED <<poolVars, closed, response>>
         ELSE /\ events' = events \o <<Log("Initializing"), Log("Processing"),
                                        Log("Chunking"), Log("Created"), Log("Starting")>>
              /\ chunked' = TRUE
              /\ routePc' = "awaitPool"
              /\ PoolStart(SliceLen(nChunks, maxSubcalls))
              /\ UNCHANGED <<closed, response, calls>>
  /\ UNCHANGED <<inputs, libVars, usage, draft, findings, oracleFailed, graph, syncResponse,
                 streamVars>>

\* for (const { item: chunk, result: subResult } of poolResults) { ... }
RECURSIVE SumUsage(_, _)
SumUsage(rs, total) ==
  IF rs = <<>> THEN total
  ELSE SumUsage(Tail(rs), addUsage(total, Head(rs).result.usage))

Parse(r) ==
  IF mode = "rlm-graph" THEN parseGraphSubResult(r.result.content, r.item)
  ELSE parseSubFinding(r.result.content, r.item)

RECURSIVE CollectFindings(_, _)
CollectFindings(rs, acc) ==
  IF rs = <<>> THEN acc
  ELSE CollectFindings(Tail(rs),
         IF comprehensiveMode \/ Parse(Head(rs)).relevant
           THEN Append(acc, Parse(Head(rs))) ELSE acc)

\* if (entities.length > 0 || relationships.length > 0) extractions.push(...)
RECURSIVE CollectExtractions(_, _)
CollectExtractions(rs, acc) ==
  IF rs = <<>> THEN acc
  ELSE CollectExtractions(Tail(rs),
         IF parseGraphExtraction(Head(rs).result.content) = "entities"
           THEN Append(acc, Head(rs).item) ELSE acc)

\* buildGraph(extractions, ...): the nodes and edges are a function of the
\* extractions, kept here as the chunks they came from.
buildGraph(collected) == [chunks |-> collected, chunkCount |-> Len(collected)]

\* (the graph sent whatever the mode is)
GraphEventsAnyMode(g) ==
  <<Log("Building graph"), Log("Graph built"), DataEvent("graph", g)>>

\* log(...); buildGraph(...); log(...); send({type: "graph", data: graph}),
\* which only the rlm-graph branch holds
GraphEvents(g) ==
  IF mode = "rlm-graph"
    THEN <<Log("Building graph"), Log("Graph built"), DataEvent("graph", g)>>
    ELSE <<>>

FoundLogs(fs) == [k \in 1 .. Len(fs) |-> Log("Found")]

\* finding.citations.join(", ") throws a TypeError when citations is no array
JoinThrows(fs) == \E k \in 1 .. Len(fs) : fs[k].citations = "string"

\* (a findingsText without the test for an empty list)
findingsTextUnguarded(fs) == "list"

\* const findingsText = findings.length > 0 ? <bullet list> : "No relevant ..."
findingsText(fs) ==
  IF Len(fs) > 0 THEN "list" ELSE "No relevant findings were extracted."

\* (a route that does not await the pool)
PoolNotAwaited == poolPc \in {"running", "returned"}

\* const results = await processWithPool(...): the promise has fulfilled
PoolResolved == poolPc = "returned"

\* The pool returned: the results are processed, the graph is built and sent
\* (graph mode), the findings are rendered and the aggregation call is issued.
processResults ==
  /\ routePc = "awaitPool"
  /\ PoolResolved
  /\ LET fs == CollectFindings(results, <<>>)
         g == buildGraph(CollectExtractions(results, <<>>))
         logged == events \o FoundLogs(fs) \o <<Log("Extracted")>> \o GraphEvents(g)
     IN /\ findings' = fs
        /\ usage' = SumUsage(results, usage)
        /\ graph' = IF mode = "rlm-graph" THEN <<g>> ELSE graph
        /\ IF JoinThrows(fs)
             THEN /\ events' = logged \o <<Log("Error"), Event("error")>>
                  /\ closed' = TRUE
                  /\ routePc' = "done"
                  /\ UNCHANGED calls
             ELSE /\ events' = Append(logged, Log("Aggregating"))
                  /\ calls' = IssueCall(calls, "aggregate", findingsText(fs),
                                        Len(events'))
                  /\ routePc' = "awaitAggregate"
                  /\ UNCHANGED closed
  /\ UNCHANGED <<poolVars, streamVars, inputs, libVars, draft, oracleFailed, response,
                 chunked, syncResponse>>

\* `await processWithPool(...)` throws: nothing in the try block catches it
poolThrows ==
  /\ routePc = "awaitPool"
  /\ poolPc = "thrown"
  /\ Catch
  /\ UNCHANGED <<poolVars, streamVars, inputs, libVars, usage, draft, findings, oracleFailed,
                 response, calls, chunked, graph, syncResponse>>

ResultData(answer, u) ==
  [mode |-> mode, answer |-> answer, usage |-> u,
   subcalls |-> IF Recursive THEN maxSubcalls ELSE None,
   chunksUsed |-> IF Recursive THEN maxSubcalls
                  ELSE IF mode = "retrieval" THEN SnippetsLen ELSE None,
   graphNodes |-> IF mode = "rlm-graph" THEN graph[1].chunkCount ELSE None,
   graph |-> IF mode = "rlm-graph" THEN graph ELSE <<>>]

\* The answer call (base, retrieval) or the aggregation call (recursive modes)
\* settles; then rewriteAnswer up to its await, or the result at once when
\* the answer is blank.
answerSettles(ok, content, u) ==
  /\ routePc \in {"awaitAnswer", "awaitAggregate"}
  /\ IF ~ok
       THEN /\ oracleFailed' = TRUE
            /\ calls' = SettleCall(calls, "rejected", None)
            /\ Catch
            /\ UNCHANGED <<usage, draft, response>>
       ELSE /\ usage' = addUsage(usage, u)
            /\ draft' = content
            /\ UNCHANGED oracleFailed
            /\ IF trim(content) = ""
                 THEN /\ calls' = SettleCall(calls, content, u)
                      /\ SendResult(Append(events, Log("Received")),
                                    ResultData(content, addUsage(usage, u)))
                 ELSE /\ events' = events \o <<Log("Received"), Log("Rewriting")>>
                      /\ calls' = IssueCall(SettleCall(calls, content, u), "rewrite",
                                            "draft", Len(events'))
                      /\ routePc' = "awaitRewrite"
                      /\ UNCHANGED <<closed, response>>
  /\ UNCHANGED <<poolVars, streamVars, inputs, libVars, findings, chunked, graph, syncResponse>>

\* The rewrite call settles: answer = rewritten.content || result.content
rewriteSettles(ok, content, u) ==
  /\ routePc = "awaitRewrite"
  /\ IF ~ok
       THEN /\ oracleFailed' = TRUE
            /\ calls' = SettleCall(calls, "rejected", None)
            /\ Catch
            /\ UNCHANGED <<usage, response>>
       ELSE /\ usage' = addUsage(usage, u)
            /\ calls' = SettleCall(calls, content, u)
            /\ UNCHANGED oracleFailed
            /\ SendResult(Append(events, Log("Rewrite complete")),
                          ResultData(IF content # "" THEN content ELSE draft,
                                     addUsage(usage, u)))
  /\ UNCHANGED <<poolVars, streamVars, inputs, libVars, draft, findings, chunked, graph,
                 syncResponse>>

\* ------------------------------------------- synchronous analyze (analyze.ts)
\* The response of the oracle to the sub-call for chunk i: the one the
\* streamed run received, or `val` when the streamed run made no such call.
SubResponse(i, val) == IF proc[i] = "fulfilled" THEN procResult[i] ELSE val

\* for (let index = 0; index < maxSubcalls; index += 1) { ... }: usage
RECURSIVE SyncUsage(_, _, _)
SyncUsage(index, val, total) ==
  IF index >= maxSubcalls THEN total
  ELSE SyncUsage(index + 1, val, addUsage(total, SubResponse(index, val).usage))

\* the same loop: findings (analyze has one parser, parseSubFinding)
RECURSIVE SyncFindings(_, _, _)
SyncFindings(index, val, acc) ==
  IF index >= maxSubcalls THEN acc
  ELSE LET finding == parseSubFinding(SubResponse(index, val).content, ItemAt(index))
       IN SyncFindings(index + 1, val,
            IF comprehensiveMode \/ finding.relevant THEN Append(acc, finding) ELSE acc)

\* rewriteAnswer(answer, ...) of analyze.ts, given the response to the rewrite call
SyncRewrite(answer, rewrite) ==
  IF trim(answer) = "" THEN [content |-> answer, usage |-> None] ELSE rewrite

\* analyze(request) from the answer or aggregation call on: `first` and
\* `rewrite` are the responses to that call and to the rewrite call.
SyncTail(u, first, rewrite, subcalls, chunksUsed) ==
  LET rewritten == SyncRewrite(first.content, rewrite) IN
  [mode |-> mode,
   answer |-> IF rewritten.content # "" THEN rewritten.content ELSE first.content,
   usage |-> addUsage(addUsage(u, first.usage), rewritten.usage),
   subcalls |-> subcalls, chunksUsed |-> chunksUsed, graphNodes |-> None,
   graph |-> <<>>]

\* What analyze throws is turned into the 500 response by the route.
SyncError ==
  [mode |-> "error", answer |-> "", usage |-> None, subcalls |-> None,
   chunksUsed |-> None, graphNodes |-> None, graph |-> <<>>]

\* analyze(request), run on the request of the streamed run and given the
\* same oracle responses, call for call.
analyze(val) ==
  /\ routePc = "done"
  /\ response # <<>>
  /\ syncResponse = <<>>
  /\ LET first == calls[1]
         rewrite == IF Len(calls) > 1 THEN calls[2] ELSE [content |-> "", usage |-> None]
     IN syncResponse' =
          IF mode = "base"
            THEN <<SyncTail(None, first, rewrite, None, None)>>
          ELSE IF mode = "retrieval"
            THEN <<SyncTail(None, first, rewrite, None, SnippetsLen)>>
          ELSE IF JoinThrows(SyncFindings(0, val, <<>>))
            THEN <<SyncError>>
            ELSE <<SyncTail(SyncUsage(0, val, None), first, rewrite,
                            maxSubcalls, maxSubcalls)>>
  /\ UNCHANGED <<poolVars, streamVars, events, routePc, inputs, libVars, closed, usage, draft,
                 findings, oracleFailed, response, calls, chunked, graph>>

\* ---------------------------------------------------------- Graph Builder
\* A name is the sequence of its words, <<>> the empty string; a type is a
\* string, "" when the field is missing. Confidences are in tenths.
VALID_ENTITY_TYPES ==
  {"party", "date", "amount", "clause", "obligation", "right", "condition", "document",
   "section"}

VALID_RELATION_TYPES ==
  {"has_obligation", "has_right", "references", "depends_on", "effective_on",
   "expires_on", "involves_amount", "defined_in", "related_to"}

\* (a filter that only asks for the fields to be present)
EntityPassesUnchecked(e) == e.type # "" /\ e.name # <<>>

\* e.type && e.name && VALID_ENTITY_TYPES.includes(e.type)
EntityPasses(e) == e.type # "" /\ e.name # <<>> /\ e.type \in VALID_ENTITY_TYPES

\* r.type && r.sourceName && r.targetName && VALID_RELATION_TYPES.includes(r.type)
RelationshipPasses(r) ==
  /\ r.type # "" /\ r.sourceName # <<>> /\ r.targetName # <<>>
  /\ r.type \in VALID_RELATION_TYPES

\* typeof e.confidence === "number" ? e.confidence : 0.8
ConfidenceOrDefault(c) == IF c = None THEN 8 ELSE c

\* .filter(...).map(...) of parseGraphSubResult, over the entries of all chunks
ParseEntities(raw) ==
  LET kept == SelectSeq(raw, EntityPasses)
  IN [k \in 1 .. Len(kept) |->
        [kept[k] EXCEPT !.confidence = ConfidenceOrDefault(kept[k].confidence)]]

ParseRelationships(raw) ==
  LET kept == SelectSeq(raw, RelationshipPasses)
  IN [k \in 1 .. Len(kept) |->
        [kept[k] EXCEPT !.confidence = ConfidenceOrDefault(kept[k].confidence)]]

\* parseGraphSubResult on every chunk's answer, and the extractions collected
parseExtractions ==
  /\ graphPc = "parse"
  /\ extractions' = [entities |-> ParseEntities(rawEntities),
                     relationships |-> ParseRelationships(rawRelationships)]
  /\ graphPc' = "merge"
  /\ UNCHANGED <<rawEntities, rawRelationships, merged, members, entityAt, nodes, edges,
                 relAt>>
  /\ UNCHANGED <<poolVars, streamVars, routeVars, chunkVars>>

\* word.toLowerCase()
ToLowerCase(word) == IF word = "Acme" THEN "acme" ELSE word

\* name.toLowerCase().trim().replace(/\s+/g, " ")
normalizeEntityName(name) == [k \in 1 .. Len(name) |-> ToLowerCase(name[k])]

\* a.includes(b), word by word ("" is included in every string)
Includes(a, b) == \E k \in 0 .. (Len(a) - Len(b)) : SubSeq(a, k + 1, k + Len(b)) = b

\* new Set(aNorm.split(" "))
WordSet(name) == {name[k] : k \in 1 .. Len(name)}

\* calculateSimilarity(a, b), in tenths
calculateSimilarity(a, b) ==
  LET aNorm == normalizeEntityName(a)
      bNorm == normalizeEntityName(b)
  IN IF aNorm = bNorm
       THEN 10
       ELSE IF Includes(aNorm, bNorm) \/ Includes(bNorm, aNorm)
         THEN 8
         ELSE (10 * Cardinality(WordSet(aNorm) \cap WordSet(bNorm)))
                \div Cardinality(WordSet(aNorm) \cup WordSet(bNorm))

\* similarityThreshold = 0.7, and the 0.7 of findNodeByName
similarityThreshold == 7

\* The types in the order entitiesByType holds them: first appearance
RECURSIVE TypesInOrder(_, _)
TypesInOrder(es, acc) ==
  IF es = <<>>
    THEN acc
    ELSE TypesInOrder(Tail(es),
                      IF \E k \in 1 .. Len(acc) : acc[k] = Head(es).type
                        THEN acc ELSE Append(acc, Head(es).type))

\* The entities in the order the two nested loops visit them: by type
\* partition, then in original order
RECURSIVE ByPartition(_, _)
ByPartition(es, types) ==
  IF types = <<>>
    THEN <<>>
    ELSE SelectSeq(es, LAMBDA e : e.type = Head(types)) \o ByPartition(es, Tail(types))

WorkList(es) == ByPartition(es, TypesInOrder(es, <<>>))

\* rawEntities.push({..., sourceChunks: [chunkId]})
RawEntity(e) ==
  [type |-> e.type, name |-> e.name, confidence |-> e.confidence,
   sourceChunks |-> <<e.chunk>>]

\* (a scan over the merged entries of every type)
InAnyPartition(m, entity) == TRUE

\* `merged` holds only the entries of the type partition being processed
InPartition(m, entity) == m.type = entity.type

\* (a test that merges equal normalized names only)
MatchesExactly(m, entity) ==
  /\ InPartition(m, entity)
  /\ calculateSimilarity(entity.name, m.name) = 10

Matches(m, entity) ==
  /\ InPartition(m, entity)
  /\ calculateSimilarity(entity.name, m.name) >= similarityThreshold

\* (the last entry of `merged` that matches)
LastMatch(entity, ms) ==
  IF \E k \in 1 .. Len(ms) : Matches(ms[k], entity)
    THEN CHOOSE k \in 1 .. Len(ms) :
           /\ Matches(ms[k], entity)
           /\ \A j \in (k + 1) .. Len(ms) : ~Matches(ms[j], entity)
    ELSE 0

\* for (const existing of merged) { if (similarity >= threshold) {...; break} }
\* the first entry that matches, 0 when foundMatch stays false
FirstMatch(entity, ms) ==
  IF \E k \in 1 .. Len(ms) : Matches(ms[k], entity)
    THEN CHOOSE k \in 1 .. Len(ms) :
           /\ Matches(ms[k], entity)
           /\ \A j \in 1 .. (k - 1) : ~Matches(ms[j], entity)
    ELSE 0

\* ([...a, ...b] with no Set around it)
SpreadList(s) == s

\* [...new Set(s)]: s without its repetitions, in first-occurrence order
RECURSIVE SpreadSet(_)
SpreadSet(s) ==
  IF s = <<>>
    THEN <<>>
    ELSE LET front == SpreadSet(SubSeq(s, 1, Len(s) - 1))
             last == s[Len(s)]
         IN IF \E k \in 1 .. Len(front) : front[k] = last
              THEN front ELSE Append(front, last)

MathMax(a, b) == IF a >= b THEN a ELSE b

\* One pass of the inner loops of mergeEntities over the next entity
mergeStep ==
  /\ graphPc = "merge"
  /\ entityAt < Len(WorkList(extractions.entities))
  /\ LET entity == RawEntity(WorkList(extractions.entities)[entityAt + 1])
         k == FirstMatch(entity, merged)
     IN IF k > 0
          THEN /\ merged' =
                    [merged EXCEPT
                       ![k].sourceChunks = SpreadSet(@ \o entity.sourceChunks),
                       ![k].confidence = MathMax(@, entity.confidence)]
               /\ members' = [members EXCEPT ![k] = Append(@, entityAt + 1)]
          ELSE /\ merged' = Append(merged, entity)
               /\ members' = Append(members, <<entityAt + 1>>)
  /\ entityAt' = entityAt + 1
  /\ UNCHANGED <<rawEntities, rawRelationships, extractions, nodes, edges, relAt, graphPc>>
  /\ UNCHANGED <<poolVars, streamVars, routeVars, chunkVars>>

\* mergedEntities.map((entity, index) => ({id: `n${index + 1}`, ...}))
GraphNodes(ms) ==
  [k \in 1 .. Len(ms) |->
     [id |-> k, type |-> ms[k].type, name |-> ms[k].name,
      sourceChunks |-> ms[k].sourceChunks, confidence |-> ms[k].confidence]]

\* mergeEntities returns
mergeEntities ==
  /\ graphPc = "merge"
  /\ entityAt = Len(WorkList(extractions.entities))
  /\ nodes' = GraphNodes(merged)
  /\ graphPc' = "edges"
  /\ UNCHANGED <<rawEntities, rawRelationships, extractions, merged, members, entityAt,
                 edges, relAt>>
  /\ UNCHANGED <<poolVars, streamVars, routeVars, chunkVars>>

\* (a lookup that keeps the first node entered under a name)
MapSetIfAbsent(map, key, node) ==
  IF \E k \in 1 .. Len(map) : map[k].key = key
    THEN map
    ELSE Append(map, [key |-> key, node |-> node])

\* nodesByName.set(key, node): a Map keeps the place of a key it already has
MapSet(map, key, node) ==
  IF \E k \in 1 .. Len(map) : map[k].key = key
    THEN [k \in 1 .. Len(map) |->
            IF map[k].key = key THEN [key |-> key, node |-> node] ELSE map[k]]
    ELSE Append(map, [key |-> key, node |-> node])

RECURSIVE NodesByName(_, _)
NodesByName(ns, map) ==
  IF ns = <<>>
    THEN map
    ELSE NodesByName(Tail(ns), MapSet(map, normalizeEntityName(Head(ns).name), Head(ns).id))

\* (a lookup whose fuzzy scan returns the most similar name, not the first)
findBestMatch(name, ns) ==
  LET map == NodesByName(ns, <<>>)
      normalized == normalizeEntityName(name)
      Sim(k) == calculateSimilarity(normalized, map[k].key)
      Best(k) == /\ Sim(k) >= similarityThreshold
                 /\ \A j \in 1 .. Len(map) : Sim(j) <= Sim(k)
  IN IF \E k \in 1 .. Len(map) : map[k].key = normalized
       THEN map[CHOOSE k \in 1 .. Len(map) : map[k].key = normalized].node
       ELSE IF \E k \in 1 .. Len(map) : Best(k)
         THEN map[CHOOSE k \in 1 .. Len(map) :
                    Best(k) /\ \A j \in 1 .. (k - 1) : ~Best(j)].node
         ELSE 0

\* findNodeByName(name): the ID of the node, 0 for undefined
findNodeByName(name, ns) ==
  LET map == NodesByName(ns, <<>>)
      normalized == normalizeEntityName(name)
      Fuzzy(k) == calculateSimilarity(normalized, map[k].key) >= similarityThreshold
  IN IF \E k \in 1 .. Len(map) : map[k].key = normalized
       THEN map[CHOOSE k \in 1 .. Len(map) : map[k].key = normalized].node
       ELSE IF \E k \in 1 .. Len(map) : Fuzzy(k)
         THEN map[CHOOSE k \in 1 .. Len(map) :
                    Fuzzy(k) /\ \A j \in 1 .. (k - 1) : ~Fuzzy(j)].node
         ELSE 0

\* (an edge for a relationship of which one endpoint resolves)
EitherResolves(sourceNode, targetNode) == sourceNode # 0 \/ targetNode # 0

\* if (sourceNode && targetNode)
BothResolve(sourceNode, targetNode) == sourceNode # 0 /\ targetNode # 0

\* (a search that takes edges of other chunks for different edges)
ExistingEdgeOfChunk(es, rel, sourceNode, targetNode) ==
  \E k \in 1 .. Len(es) :
    /\ es[k].type = rel.type /\ es[k].source = sourceNode /\ es[k].target = targetNode
    /\ es[k].sourceChunk = rel.chunk

\* edges.find((e) => e.type === rel.type && e.source === ... && e.target === ...)
ExistingEdge(es, rel, sourceNode, targetNode) ==
  \E k \in 1 .. Len(es) :
    es[k].type = rel.type /\ es[k].source = sourceNode /\ es[k].target = targetNode

\* One pass of the edge loop of buildGraph over the next relationship
edgeStep ==
  /\ graphPc = "edges"
  /\ relAt < Len(extractions.relationships)
  /\ LET rel == extractions.relationships[relAt + 1]
         sourceNode == findNodeByName(rel.sourceName, nodes)
         targetNode == findNodeByName(rel.targetName, nodes)
     IN edges' =
          IF BothResolve(sourceNode, targetNode)
             /\ ~ExistingEdge(edges, rel, sourceNode, targetNode)
            THEN Append(edges,
                        [id |-> Len(edges) + 1, type |-> rel.type, source |-> sourceNode,
                         target |-> targetNode, sourceChunk |-> rel.chunk,
                         confidence |-> rel.confidence])
            ELSE edges
  /\ relAt' = relAt + 1
  /\ UNCHANGED <<rawEntities, rawRelationships, extractions, merged, members, entityAt,
                 nodes, graphPc>>
  /\ UNCHANGED <<poolVars, streamVars, routeVars, chunkVars>>

\* buildGraph returns {nodes, edges, metadata}
buildGraphReturns ==
  /\ graphPc = "edges"
  /\ relAt = Len(extractions.relationships)
  /\ graphPc' = "done"
  /\ UNCHANGED <<rawEntities, rawRelationships, extractions, merged, members, entityAt,
                 nodes, edges, relAt>>
  /\ UNCHANGED <<poolVars, streamVars, routeVars, chunkVars>>

\* ---------------------------------------------------------------- Chunker
\* A document is the sequence of the parts text.split(/\n\s*\n/g) gives, each
\* known by its length after trim() (0: a blank part); a paragraph is named
\* by the place of its part, and a text is the sequence of the paragraphs
\* joined in it by "\n\n".
\* splitParagraphs(text): .map((part) => part.trim()).filter(Boolean)
splitParagraphs(ps) ==
  SelectSeq([k \in 1 .. Len(ps) |-> k], LAMBDA k : ps[k] > 0)

\* text.length
RECURSIVE TextLength(_, _)
TextLength(text, ps) ==
  IF text = <<>>
    THEN 0
    ELSE ps[Head(text)] + (IF Len(text) > 1 THEN 2 ELSE 0) + TextLength(Tail(text), ps)

\* The closure state of buildChunks for the document
ChunkerState ==
  [buffer |-> buffer, startOffset |-> startOffset, chunkIndex |-> chunkIndex,
   chunks |-> chunks]

\* (a flush that leaves startOffset where it was)
flushKeepingStart(endOffset, st) ==
  IF st.buffer = <<>>
    THEN st
    ELSE [buffer |-> <<>>, startOffset |-> st.startOffset,
          chunkIndex |-> st.chunkIndex + 1,
          chunks |-> Append(st.chunks,
                            [index |-> st.chunkIndex, text |-> st.buffer,
                             start |-> st.startOffset, end |-> endOffset])]

\* const flush = (endOffset) => {...}
flush(endOffset, st) ==
  IF st.buffer = <<>>
    THEN st
    ELSE [buffer |-> <<>>, startOffset |-> endOffset,
          chunkIndex |-> st.chunkIndex + 1,
          chunks |-> Append(st.chunks,
                            [index |-> st.chunkIndex, text |-> st.buffer,
                             start |-> st.startOffset, end |-> endOffset])]

\* (a test that never flushes before the paragraph is added)
OverflowsNever(buf, paragraph, ps, size) == FALSE

\* next.length > chunkSize && buffer
Overflows(buf, paragraph, ps, size) ==
  TextLength(Append(buf, paragraph), ps) > size /\ buf # <<>>

\* (an assignment that forgets the buffer)
ReplaceBuffer(buf, paragraph) == <<paragraph>>

\* buffer = buffer ? `${buffer}\n\n${paragraph}` : paragraph
JoinParagraph(buf, paragraph) == Append(buf, paragraph)

\* The body of paragraphs.forEach for the next paragraph
paragraphStep ==
  /\ chunkPc = "loop"
  /\ paraAt < Len(splitParagraphs(parts))
  /\ LET paragraph == splitParagraphs(parts)[paraAt + 1]
         st1 == IF Overflows(buffer, paragraph, parts, chunkSize)
                  THEN flush(cursor, ChunkerState) ELSE ChunkerState
         st2 == [st1 EXCEPT !.buffer = JoinParagraph(st1.buffer, paragraph)]
         cursor2 == cursor + parts[paragraph] + 2
         st3 == IF TextLength(st2.buffer, parts) >= chunkSize
                  THEN flush(cursor2, st2) ELSE st2
     IN /\ cursor' = cursor2
        /\ buffer' = st3.buffer
        /\ startOffset' = st3.startOffset
        /\ chunkIndex' = st3.chunkIndex
        /\ chunks' = st3.chunks
  /\ paraAt' = paraAt + 1
  /\ UNCHANGED <<parts, chunkSize, chunkPc>>
  /\ UNCHANGED <<poolVars, streamVars, routeVars, graphVars>>

\* flush(cursor) after the loop, and the return of buildChunks
buildChunks ==
  /\ chunkPc = "loop"
  /\ paraAt = Len(splitParagraphs(parts))
  /\ LET st == flush(cursor, ChunkerState)
     IN /\ buffer' = st.buffer
        /\ startOffset' = st.startOffset
        /\ chunkIndex' = st.chunkIndex
        /\ chunks' = st.chunks
  /\ chunkPc' = "done"
  /\ UNCHANGED <<parts, chunkSize, cursor, paraAt>>
  /\ UNCHANGED <<poolVars, streamVars, routeVars, graphVars>>

\* ------------------------------------------------------- specifications
InitPoolState ==
  /\ nextIndex = 0
  /\ completed = 0
  /\ results = <<>>
  /\ proc = [i \in Indices |-> "idle"]
  /\ procResult = [i \in Indices |-> NoResult]
  /\ inFlight = <<>>
  /\ winner = None
  /\ workerItem = [w \in Workers |-> None]
  /\ poolPc = "idle"
  /\ progress = <<>>
  /\ order = <<>>

InitStreamState ==
  /\ resultQueue = <<>>
  /\ yielded = <<>>
  /\ genPc = "notStarted"
  /\ allDone = FALSE
  /\ resolveWaiting = FALSE
  /\ handoff = <<>>

NoGraph ==
  /\ rawEntities = <<>>
  /\ rawRelationships = <<>>
  /\ extractions = [entities |-> <<>>, relationships |-> <<>>]
  /\ merged = <<>>
  /\ members = <<>>
  /\ entityAt = 0
  /\ nodes = <<>>
  /\ edges = <<>>
  /\ relAt = 0
  /\ graphPc = "none"

NoChunker ==
  /\ parts = <<>>
  /\ chunkSize = 0
  /\ buffer = <<>>
  /\ startOffset = 0
  /\ chunkIndex = 0
  /\ cursor = 0
  /\ chunks = <<>>
  /\ paraAt = 0
  /\ chunkPc = "none"

NoRoute ==
  /\ routePc = "none"
  /\ mode = "rlm"
  /\ configOk = TRUE
  /\ credentialsOk = TRUE
  /\ nScoring = 0
  /\ topK = 0
  /\ nChunks = 0
  /\ maxSubcallsOpt = 0
  /\ comprehensiveMode = FALSE
  /\ events = <<>>
  /\ closed = FALSE
  /\ usage = None
  /\ draft = ""
  /\ findings = <<>>
  /\ oracleFailed = FALSE
  /\ response = <<>>
  /\ calls = <<>>
  /\ chunked = FALSE
  /\ graph = <<>>
  /\ syncResponse = <<>>

\* A stand-alone call processWithPool(items, processor, {concurrency}).
InitPool ==
  /\ NoRoute /\ NoGraph /\ NoChunker
  /\ impl \in Impls
  /\ nItems \in 0 .. MaxItems
  /\ concurrency \in 0 .. MaxConcurrency
  /\ InitPoolState
  /\ InitStreamState

NextPool ==
  \/ processWithPool
  \/ \E i \in Indices, ok \in BOOLEAN, val \in TestOutputs : processorSettles(i, ok, val)
  \/ raceLoop
  \/ \E w \in Workers, ok \in BOOLEAN, val \in TestOutputs : worker(w, ok, val)
  \/ \E w \in Workers, ok \in BOOLEAN, val \in TestOutputs : runWorker(w, ok, val)
  \/ awaitWorkers

SpecPool == InitPool /\ [][NextPool]_vars

\* Every promise that can settle eventually does, and every continuation runs.
FairSpecPool == SpecPool /\ WF_vars(NextPool)

\* A stand-alone `for await (... of streamWithPool(items, processor, {concurrency}))`.
NextStream ==
  \/ streamRaceStart
  \/ \E i \in Indices, ok \in BOOLEAN, val \in TestOutputs : processorSettles(i, ok, val)
  \/ streamRaceYield
  \/ streamRaceNext
  \/ streamWithPool
  \/ \E w \in Workers, ok \in BOOLEAN, val \in TestOutputs : streamWorker(w, ok, val)
  \/ streamAllDone
  \/ streamResume
  \/ streamNext
  \/ legacyStreamWithPool
  \/ \E w \in Workers, ok \in BOOLEAN, val \in TestOutputs : legacyStreamWorker(w, ok, val)
  \/ legacyStreamResume
  \/ legacyStreamNext

SpecStream == InitPool /\ [][NextStream]_vars

\* Every processor promise settles, every continuation runs, and the consumer
\* keeps asking for the next value.
FairSpecStream == SpecStream /\ WF_vars(NextStream)

\* A streamed run of the route; its processWithPool is the worker-loop version.
RouteConcurrency == {0, 1, 2}
RouteMaxSubcalls == {-1, 0, 1, 2}
RouteTopK == {0, 1, 2}

\* Whether a chatCompletion call can fulfil: getClient() throws when the
\* credentials are missing, and any request can fail.
ChatCompletionOutcomes == IF credentialsOk THEN BOOLEAN ELSE {FALSE}

Init ==
  /\ routePc = "init"
  /\ mode \in RequestModes
  /\ configOk \in BOOLEAN
  /\ credentialsOk \in BOOLEAN
  /\ nChunks \in 0 .. MaxChunks
  \* the options and inputs a mode does not read are held at one value
  /\ topK \in (IF mode = "retrieval" THEN RouteTopK ELSE {1})
  /\ nScoring \in (IF mode = "retrieval" THEN 0 .. nChunks ELSE {0})
  /\ (~configOk => credentialsOk)
  /\ maxSubcallsOpt \in RouteMaxSubcalls
  /\ comprehensiveMode \in BOOLEAN
  /\ concurrency \in RouteConcurrency
  /\ impl = "worker"
  /\ nItems = 0
  /\ events = <<>>
  /\ closed = FALSE
  /\ usage = None
  /\ draft = ""
  /\ findings = <<>>
  /\ oracleFailed = FALSE
  /\ response = <<>>
  /\ calls = <<>>
  /\ chunked = FALSE
  /\ graph = <<>>
  /\ syncResponse = <<>>
  /\ InitPoolState
  /\ InitStreamState
  /\ NoGraph /\ NoChunker

Next ==
  \/ POST
  \/ \E w \in Workers, ok \in ChatCompletionOutcomes, val \in Responses :
       worker(w, ok, val)
  \/ awaitWorkers
  \/ processResults
  \/ poolThrows
  \/ \E ok \in ChatCompletionOutcomes, content \in AnswerContents, u \in UsageVals :
       answerSettles(ok, content, u)
  \/ \E ok \in ChatCompletionOutcomes, content \in AnswerContents, u \in UsageVals :
       rewriteSettles(ok, content, u)
  \/ \E val \in Responses : analyze(val)

Spec == Init /\ [][Next]_vars

\* Every oracle call eventually settles, and every continuation runs.
FairSpec == Spec /\ WF_vars(Next)

\* ---- the library functions on their own
NoPool ==
  /\ impl = "worker"
  /\ nItems = 0
  /\ concurrency = 0
  /\ InitPoolState
  /\ InitStreamState

SeqsUpTo(S, n) == UNION {[1 .. k -> S] : k \in 0 .. n}

\* extractions are collected chunk by chunk: the chunk IDs never step back
ByChunk(s) == \A k \in 1 .. (Len(s) - 1) : s[k].chunk <= s[k + 1].chunk

\* A stand-alone call mergeEntities(extractions).
MaxEntities == 3

MergeEntityKinds ==
  {[type |-> "party", name |-> <<"Acme">>, confidence |-> 5, chunk |-> 1],
   [type |-> "party", name |-> <<"corp">>, confidence |-> 9, chunk |-> 1],
   [type |-> "party", name |-> <<"acme", "corp">>, confidence |-> 8, chunk |-> 2],
   [type |-> "party", name |-> <<"acme">>, confidence |-> 9, chunk |-> 2],
   [type |-> "date", name |-> <<"Acme">>, confidence |-> 9, chunk |-> 2]}

InitMerge ==
  /\ NoRoute /\ NoPool /\ NoChunker
  /\ rawEntities = <<>>
  /\ rawRelationships = <<>>
  /\ \E es \in {s \in SeqsUpTo(MergeEntityKinds, MaxEntities) : ByChunk(s)} :
       extractions = [entities |-> es, relationships |-> <<>>]
  /\ merged = <<>>
  /\ members = <<>>
  /\ entityAt = 0
  /\ nodes = <<>>
  /\ edges = <<>>
  /\ relAt = 0
  /\ graphPc = "merge"

NextMerge ==
  \/ mergeStep
  \/ mergeEntities

SpecMerge == InitMerge /\ [][NextMerge]_vars

\* The extraction half of parseGraphSubResult over the oracle's answers,
\* followed by buildGraph over what it kept.
MaxGraphEntities == 2
MaxRelationships == 2

GraphEntityKinds ==
  {[type |-> "party", name |-> <<"Acme">>, confidence |-> 5, chunk |-> 1],
   [type |-> "party", name |-> <<"corp">>, confidence |-> None, chunk |-> 1],
   [type |-> "date", name |-> <<"Acme">>, confidence |-> 9, chunk |-> 2],
   [type |-> "person", name |-> <<"Acme">>, confidence |-> 9, chunk |-> 1],
   [type |-> "party", name |-> <<>>, confidence |-> 9, chunk |-> 2],
   [type |-> "party", name |-> <<"acme", "zeta", "corp", "inc">>, confidence |-> 9,
    chunk |-> 1],
   [type |-> "date", name |-> <<"acme", "corp">>, confidence |-> 9, chunk |-> 2]}

GraphRelationshipKinds ==
  {[type |-> "references", sourceName |-> <<"Acme">>, targetName |-> <<"corp">>,
    confidence |-> 5, chunk |-> 1],
   [type |-> "references", sourceName |-> <<"acme", "corp">>, targetName |-> <<"corp">>,
    confidence |-> 9, chunk |-> 2],
   [type |-> "has_right", sourceName |-> <<"Acme">>, targetName |-> <<"corp">>,
    confidence |-> None, chunk |-> 2],
   [type |-> "references", sourceName |-> <<"Acme">>, targetName |-> <<"zeta">>,
    confidence |-> 9, chunk |-> 1],
   [type |-> "owns", sourceName |-> <<"Acme">>, targetName |-> <<"corp">>,
    confidence |-> 9, chunk |-> 1],
   [type |-> "references", sourceName |-> <<>>, targetName |-> <<"corp">>,
    confidence |-> 9, chunk |-> 2],
   [type |-> "references", sourceName |-> <<"acme", "corp", "inc">>,
    targetName |-> <<"Acme">>, confidence |-> 9, chunk |-> 2]}

InitGraph ==
  /\ NoRoute /\ NoPool /\ NoChunker
  /\ rawEntities \in {s \in SeqsUpTo(GraphEntityKinds, MaxGraphEntities) : ByChunk(s)}
  /\ rawRelationships \in
       {s \in SeqsUpTo(GraphRelationshipKinds, MaxRelationships) : ByChunk(s)}
  /\ extractions = [entities |-> <<>>, relationships |-> <<>>]
  /\ merged = <<>>
  /\ members = <<>>
  /\ entityAt = 0
  /\ nodes = <<>>
  /\ edges = <<>>
  /\ relAt = 0
  /\ graphPc = "parse"

NextGraph ==
  \/ parseExtractions
  \/ mergeStep
  \/ mergeEntities
  \/ edgeStep
  \/ buildGraphReturns

SpecGraph == InitGraph /\ [][NextGraph]_vars

\* A stand-alone call buildChunks([doc], {chunkSize}).
MaxParts == 3
MaxPartLength == 5
MaxChunkSize == 6

InitChunks ==
  /\ NoRoute /\ NoPool /\ NoGraph
  /\ parts \in SeqsUpTo(0 .. MaxPartLength, MaxParts)
  /\ chunkSize \in 0 .. MaxChunkSize
  /\ buffer = <<>>
  /\ startOffset = 0
  /\ chunkIndex = 0
  /\ cursor = 0
  /\ chunks = <<>>
  /\ paraAt = 0
  /\ chunkPc = "loop"

NextChunks ==
  \/ paragraphStep
  \/ buildChunks

SpecChunks == InitChunks /\ [][NextChunks]_vars

\* ================================================================ claims
EventCount(type) == Cardinality({k \in 1 .. Len(events) : events[k].type = type})
ResultCount == EventCount("result")
ErrorCount == EventCount("error")
Terminal(e) == e.type \in {"result", "error"}
OracleCallFailed == oracleFailed \/ AnyRejected

\* C1: a streamed run emits at most one `result`, never both a `result` and an
\* `error`; a run that ended without an `error` emitted exactly one `result`;
\* a terminal event is followed by no other event, and the stream is closed
\* right after it.
C1_OneTerminalEvent ==
  /\ ResultCount <= 1
  /\ ~(ResultCount >= 1 /\ ErrorCount >= 1)
  /\ (closed /\ ErrorCount = 0) => ResultCount = 1
  /\ \A k \in 1 .. Len(events) : Terminal(events[k]) => (k = Len(events) /\ closed)
  /\ closed => (events # <<>> /\ Terminal(events[Len(events)]))

\* C1 witness: a recursive run over at least two chunks that ended with its result.
C1_Witness ==
  /\ closed /\ ResultCount = 1 /\ Recursive /\ Len(results) >= 2
  /\ events[Len(events)].type = "result"

\* C2: once an oracle call has failed (answer, sub-call, aggregation or
\* rewrite), no `result` is ever emitted, and the run goes on to emit one
\* `error` event as its last event and to close the stream.
C2_OracleFailureIsError ==
  /\ [](OracleCallFailed => ResultCount = 0)
  /\ [](OracleCallFailed /\ closed =>
          ErrorCount = 1 /\ events[Len(events)].type = "error")
  /\ (OracleCallFailed ~> (closed /\ ErrorCount = 1 /\ ResultCount = 0))

\* C2 witness: a sub-call failed while another chunk had been processed, and
\* the run ended with the `error` event.
C2_Witness ==
  /\ AnyRejected /\ completed >= 1 /\ closed
  /\ ErrorCount = 1 /\ ResultCount = 0

\* C3: in the recursive modes, when no oracle call fails, the run never emits
\* an `error`, whatever text the sub-calls return.
C3_MalformedOutputNeverFatal ==
  (Recursive /\ configOk /\ ~OracleCallFailed) => ErrorCount = 0

\* C4: in the recursive modes a failing sub-call does not escape the pool,
\* and the run emits no `error`.
C4_SubcallFailureDegrades ==
  (Recursive /\ AnyRejected) => (poolPc # "thrown" /\ ErrorCount = 0)

Expected == [k \in 1 .. nItems |-> PoolResult(k - 1, procResult[k - 1])]

C6_ConcurrencyBound == Cardinality(Pending) <= concurrency

C8_StreamCompletionOrder ==
  (concurrency >= 1 /\ ~AnyRejected) =>
    /\ Len(yielded) <= nItems
    /\ \A k \in 1 .. Len(yielded) :
         /\ k <= Len(order)
         /\ yielded[k] = PoolResult(order[k], procResult[order[k]])
    /\ genPc = "done" => Len(yielded) = nItems

\* C9: while processWithPool runs over a non-empty list, exactly
\* min(concurrency, items.length) invocations are in flight.
C9_ExactlyMinInFlight ==
  (poolPc = "running" /\ nItems > 0) =>
    Cardinality(Pending) = Min(concurrency, nItems)

\* C10: with concurrency >= 1, the k-th onProgress call has the arguments
\* (k, n) and comes after k results have been recorded; there are never more
\* than n calls, and exactly n when processWithPool returns.
C10_ProgressCounts ==
  (routePc = "none" /\ concurrency >= 1) =>
    /\ Len(progress) <= nItems
    /\ \A k \in 1 .. Len(progress) : progress[k] = <<k, nItems, k>>
    /\ poolPc = "returned" => Len(progress) = nItems

\* The oracle sub-calls issued: the processor invocations that were started.
SubcallsIssued == {i \in Indices : proc[i] # "idle"}

\* C11: in the recursive modes, whatever the options, a run that ends with a
\* result has issued exactly debug.subcalls sub-calls, that number is
\* min(maxSubcalls, totalChunks), and they went to the first that many chunks.
C11_SubcallCount ==
  (Recursive /\ ResultCount = 1) =>
    /\ response[1].subcalls = Cardinality(SubcallsIssued)
    /\ Cardinality(SubcallsIssued) = Min(maxSubcallsOpt, nChunks)
    /\ SubcallsIssued = 0 .. (Min(maxSubcallsOpt, nChunks) - 1)

\* The tokens a call reported (0 when it reported no usage).
Tokens(u) == IF u = None THEN 0 ELSE u

RECURSIVE SubcallTokens(_)
SubcallTokens(n) ==
  IF n = 0 THEN 0
  ELSE SubcallTokens(n - 1) +
       (IF proc[n - 1] = "fulfilled" THEN Tokens(procResult[n - 1].usage) ELSE 0)

RECURSIVE CallTokens(_)
CallTokens(cs) == IF cs = <<>> THEN 0 ELSE Tokens(Head(cs).usage) + CallTokens(Tail(cs))

TokensReported == SubcallTokens(MaxItems) + CallTokens(calls)

\* C12: the usage of the result is the sum of the totalTokens that the
\* sub-calls, the answer or aggregation call and the rewrite call reported,
\* and is absent when none of them reported any.
C12_UsageIsSum ==
  ResultCount = 1 =>
    response[1].usage = (IF TokensReported = 0 THEN None ELSE TokensReported)

\* C12 witness: a recursive run whose result adds up the usage of two
\* sub-calls, the aggregation and the rewrite.
C12_Witness ==
  /\ ResultCount = 1 /\ Recursive /\ Len(results) >= 2 /\ Len(calls) = 2
  /\ response[1].usage = 12

\* What the two variants return: answer, mode, usage and debug.
Returned(r) ==
  [mode |-> r.mode, answer |-> r.answer, usage |-> r.usage, subcalls |-> r.subcalls,
   chunksUsed |-> r.chunksUsed, graphNodes |-> r.graphNodes]

\* C13: given the request and the oracle responses of a streamed run that
\* ended with a result, analyze returns the same answer, mode, usage and
\* debug as that result carries.
C13_SyncEqualsStream ==
  syncResponse # <<>> => Returned(syncResponse[1]) = Returned(response[1])

\* The requests made to the oracle: chatCompletion calls that got past
\* getClient().
RequestsMade == IF credentialsOk THEN Cardinality(SubcallsIssued) + Len(calls) ELSE 0

\* C14: when the deployment name or the credentials are missing, no chunking
\* is ever performed, no request is made to the oracle and no result is sent.
C14_ConfigFailsFirst ==
  (~configOk \/ ~credentialsOk) => (~chunked /\ RequestsMade = 0 /\ ResultCount = 0)

\* The pool has returned and its results have been processed.
ResultsProcessed == Recursive /\ poolPc = "returned" /\ routePc # "awaitPool"

NoRelevantFinding == \A k \in 1 .. Len(results) : ~Parse(results[k]).relevant

AggregateCalls == {k \in 1 .. Len(calls) : calls[k].kind = "aggregate"}

\* What C15 promises of a run: one aggregation call, made with the sentence
\* in place of the findings, no error unless an oracle call failed, and a
\* result at the end.
EmptyFindingsOutcome ==
  /\ Cardinality(AggregateCalls) = 1
  /\ calls[1].kind = "aggregate"
  /\ calls[1].prompt = "No relevant findings were extracted."
  /\ (ErrorCount > 0 => oracleFailed)
  /\ ((closed /\ ~oracleFailed) => ResultCount = 1)

RewriteCalls == {k \in 1 .. Len(calls) : calls[k].kind = "rewrite"}

\* The answer or aggregation call has returned its answer.
Answered == calls # <<>> /\ calls[1].content \notin {"pending", "rejected"}

\* C16: once the answer call has returned, the rewrite call has been issued
\* exactly once if the answer is not blank and not at all if it is empty or
\* whitespace only; the answer of the result is the rewritten text when that
\* is non-empty, and the un-rewritten answer otherwise.
C16_RewriteOnce ==
  Answered =>
    /\ Cardinality(RewriteCalls) = (IF calls[1].content \in {"", " "} THEN 0 ELSE 1)
    /\ RewriteCalls \subseteq {2}
    /\ ResultCount = 1 =>
         response[1].answer =
           (IF RewriteCalls # {} /\ calls[Len(calls)].content # ""
              THEN calls[Len(calls)].content ELSE calls[1].content)

\* C16 witness: the rewrite of a non-blank answer came back empty, and the
\* result carries the un-rewritten answer.
C16_Witness ==
  /\ ResultCount = 1 /\ Len(calls) = 2
  /\ calls[2].kind = "rewrite" /\ calls[2].content = ""
  /\ calls[1].content = "text" /\ response[1].answer = "text"

EventsOfType(type) == {k \in 1 .. Len(events) : events[k].type = type}

\* C17: a `graph` event is sent in rlm-graph mode only and at most once; when
\* it is sent every sub-call issued has completed and the graph has been
\* built; the aggregation call is issued after it and the `result` follows
\* it; the `result` of an rlm-graph run carries the graph of that event.
C17_GraphEvent ==
  /\ Cardinality(EventsOfType("graph")) <= 1
  /\ \A g \in EventsOfType("graph") :
       /\ mode = "rlm-graph"
       /\ graph # <<>> /\ events[g].data = graph
       /\ \A i \in Indices : proc[i] # "pending"
       /\ \A k \in AggregateCalls : calls[k].at > g
       /\ \A r \in EventsOfType("result") : r > g
  /\ \A r \in EventsOfType("result") :
       mode = "rlm-graph" =>
         /\ EventsOfType("graph") # {}
         /\ events[r].data[1].graph = graph

\* C17 witness: an rlm-graph run whose graph has a node was sent as a `graph`
\* event and then carried by the result.
C17_Witness ==
  /\ mode = "rlm-graph" /\ ResultCount = 1 /\ EventsOfType("graph") # {}
  /\ graph[1].chunkCount >= 1 /\ response[1].graph = graph

\* The answer call of a retrieval run has been issued.
Retrieved == mode = "retrieval" /\ calls # <<>>

\* What both readings of C18 share: the fallback is taken exactly when the
\* ranking is empty, the result reports the chunks used, and they number no
\* more than topK and no more than there are chunks.
RetrievalBounds ==
  /\ (calls[1].prompt = "firstTopK") <=> (RankedLen = 0)
  /\ SnippetsLen <= topK /\ SnippetsLen <= nChunks
  /\ ResultCount = 1 => response[1].chunksUsed = SnippetsLen

\* C18 (as claimed): in retrieval mode the context always holds at least one
\* chunk, the first topK chunks being used when the ranking is empty, and
\* the chunks used never exceed topK nor the number of chunks.
C18_RetrievalFallback == Retrieved => (RetrievalBounds /\ SnippetsLen >= 1)

\* C18 (amended): the same, with at least one chunk in the context exactly
\* when there is at least one chunk and topK >= 1.
C18_RetrievalFallbackAmended ==
  Retrieved =>
    /\ RetrievalBounds
    /\ (SnippetsLen >= 1) <=> (nChunks >= 1 /\ topK >= 1)

\* C18 witness: no chunk scores, and the run ends having used the first
\* chunk of two (topK = 1).
C18_Witness ==
  /\ Retrieved /\ nScoring = 0 /\ nChunks = 2 /\ topK = 1
  /\ calls[1].prompt = "firstTopK"
  /\ ResultCount = 1 /\ response[1].chunksUsed = 1

\* A text with no "{" ... "}" pair, or whose braces hold no valid JSON.
Unparseable(text) == text \in {"prose", "badjson"}

\* relevant=false, summary "", citations [], chunkId from the chunk
ZeroFinding(chunk) ==
  [relevant |-> FALSE, summary |-> "", citations |-> "emptyArray", chunkId |-> chunk]

\* C19: for every sub-call answer a run has received that holds no JSON
\* object or no valid JSON, both parsers return the zero-value finding for
\* the chunk (and parseGraphSubResult an empty extraction); a run whose
\* sub-call answers are all of that kind does not fail in the parser.
C19_ParserFallback ==
  /\ \A i \in Indices :
       (proc[i] = "fulfilled" /\ Unparseable(procResult[i].content)) =>
         /\ parseSubFinding(procResult[i].content, ItemAt(i)) = ZeroFinding(ItemAt(i))
         /\ parseGraphSubResult(procResult[i].content, ItemAt(i)) = ZeroFinding(ItemAt(i))
         /\ parseGraphExtraction(procResult[i].content) = "empty"
  /\ (ResultsProcessed /\ \A k \in 1 .. Len(results) : Unparseable(results[k].result.content))
       => /\ (ErrorCount > 0 => oracleFailed)
          /\ \A k \in 1 .. Len(findings) : findings[k] = ZeroFinding(findings[k].chunkId)

\* C19 witness: a comprehensive run received unparseable JSON for its first
\* chunk and carries the zero-value finding for it to aggregation.
C19_Witness ==
  /\ ResultsProcessed /\ comprehensiveMode /\ Len(results) >= 2
  /\ results[1].result.content = "badjson" /\ results[2].result.content = "prose"
  /\ Len(findings) = Len(results) /\ findings[1] = ZeroFinding(ItemAt(0))
  /\ calls # <<>>

\* The citations of a finding contain the ID of the finding's own chunk:
\* [chunk.id] does, the oracle's ["c"] and the oracle's string do not.
CitesOwnChunk(f) == f.citations = "own"

\* C20: every relevant finding passed to aggregation has a non-empty
\* citations list that cites at least its own chunk's ID.
C20_CitesOwnChunk ==
  \A k \in 1 .. Len(findings) : findings[k].relevant => CitesOwnChunk(findings[k])

\* The closed sets EntityType and RelationType.
EntityTypes ==
  {"party", "date", "amount", "clause", "obligation", "right", "condition", "document",
   "section"}
RelationTypes ==
  {"has_obligation", "has_right", "references", "depends_on", "effective_on",
   "expires_on", "involves_amount", "defined_in", "related_to"}

\* C21: in graph mode every entity handed to the Graph Builder has one of
\* the 9 entity types and a name, every relationship one of the 9 relation
\* types, a sourceName and a targetName; every node and every edge of the
\* graph has a valid type.
C21_OnlyValidTypesInGraph ==
  /\ \A k \in 1 .. Len(extractions.entities) :
       extractions.entities[k].type \in EntityTypes /\ extractions.entities[k].name # <<>>
  /\ \A k \in 1 .. Len(extractions.relationships) :
       /\ extractions.relationships[k].type \in RelationTypes
       /\ extractions.relationships[k].sourceName # <<>>
       /\ extractions.relationships[k].targetName # <<>>
  /\ \A k \in 1 .. Len(merged) : merged[k].type \in EntityTypes
  /\ \A k \in 1 .. Len(nodes) : nodes[k].type \in EntityTypes
  /\ \A k \in 1 .. Len(edges) : edges[k].type \in RelationTypes

\* C21 witness: the oracle sent an entity and a relationship of unknown
\* types next to valid ones, and the graph built has a node and an edge.
C21_Witness ==
  /\ graphPc = "done"
  /\ \E k \in 1 .. Len(rawEntities) : rawEntities[k].type \notin EntityTypes
  /\ \E k \in 1 .. Len(rawRelationships) : rawRelationships[k].type \notin RelationTypes
  /\ Len(nodes) >= 1 /\ Len(edges) >= 1

\* The entities in the order mergeEntities visits them, and those visited.
Work == WorkList(extractions.entities)
Visited == 1 .. entityAt

\* The merged entries (nodes, once IDs are assigned) that hold entity i.
Holders(i) == {k \in 1 .. Len(members) : \E n \in 1 .. Len(members[k]) : members[k][n] = i}
Holder(i) == CHOOSE k \in Holders(i) : TRUE

\* The entity that created entry k: the entry carries its name.
Founder(k) == members[k][1]

SameType(i, j) == Work[i].type = Work[j].type
Similar(i, j) == SameType(i, j) /\ calculateSimilarity(Work[i].name, Work[j].name) >= 7

\* C22 (as stated): any two visited entities of the same type whose names
\* have similarity >= 0.7 are in exactly one and the same node, whose
\* sourceChunks has the chunk IDs of both.
C22_SimilarEntitiesShareNode ==
  \A i \in Visited, j \in Visited :
    Similar(i, j) =>
      /\ Cardinality(Holders(i)) = 1 /\ Holders(i) = Holders(j)
      /\ \E a, b \in 1 .. Len(merged[Holder(i)].sourceChunks) :
           /\ merged[Holder(i)].sourceChunks[a] = Work[i].chunk
           /\ merged[Holder(i)].sourceChunks[b] = Work[j].chunk

\* C22 (amended): every visited entity is in exactly one node, the first
\* created node of its type whose founding entity has a name of similarity
\* >= 0.7 to its own (itself when it founded the node); that node's
\* sourceChunks has its chunk ID, and keeps it once the IDs are assigned;
\* two entities of one type with equal normalized names share a node.
C22_MergedIntoFirstSimilarNode ==
  /\ \A i \in Visited :
       /\ Cardinality(Holders(i)) = 1
       /\ Founder(Holder(i)) <= i /\ Similar(i, Founder(Holder(i)))
       /\ \A k \in 1 .. (Holder(i) - 1) : ~Similar(i, Founder(k))
       /\ \E a \in 1 .. Len(merged[Holder(i)].sourceChunks) :
            merged[Holder(i)].sourceChunks[a] = Work[i].chunk
       /\ merged[Holder(i)].name = Work[Founder(Holder(i))].name
  /\ \A i \in Visited, j \in Visited :
       (SameType(i, j) /\ calculateSimilarity(Work[i].name, Work[j].name) = 10)
         => Holders(i) = Holders(j)
  /\ graphPc \in {"edges", "done"} =>
       /\ Len(nodes) = Len(merged)
       /\ \A k \in 1 .. Len(nodes) :
            nodes[k].sourceChunks = merged[k].sourceChunks /\ nodes[k].name = merged[k].name

\* C22 witness: "Acme", "corp" and "acme corp" of one type were merged in
\* that order into two nodes, the first with the chunk IDs of "Acme" and
\* "acme corp".
C22_Witness ==
  /\ graphPc = "edges" /\ entityAt = 3 /\ Len(nodes) = 2
  /\ Work[1].name = <<"Acme">> /\ Work[2].name = <<"corp">>
  /\ Work[3].name = <<"acme", "corp">>
  /\ members = << <<1, 3>>, <<2>> >>
  /\ nodes[1].sourceChunks = <<1, 2>>

\* C23: every entity merged into an entry has the entry's type, and the node
\* made of the entry keeps that type: entities of different types are never
\* in one node, whatever their names.
C23_NeverMergeAcrossTypes ==
  /\ \A k \in 1 .. Len(members) :
       \A n \in 1 .. Len(members[k]) : Work[members[k][n]].type = merged[k].type
  /\ \A i \in Visited, j \in Visited : ~SameType(i, j) => Holders(i) \cap Holders(j) = {}
  /\ graphPc \in {"edges", "done"} =>
       \A k \in 1 .. Len(nodes) : nodes[k].type = merged[k].type

\* C23 witness: a party and a date both named "Acme" ended in two nodes.
C23_Witness ==
  /\ graphPc = "edges" /\ entityAt = 2 /\ Len(nodes) = 2
  /\ Work[1].name = Work[2].name
  /\ nodes[1].type = "party" /\ nodes[2].type = "date"
  /\ nodes[1].name = nodes[2].name

\* The chunk ID and the confidence of the n-th entity merged into entry k.
ChunkOfMember(k, n) == Work[members[k][n]].chunk
ConfidenceOfMember(k, n) == Work[members[k][n]].confidence

\* The place of the first entity of entry k that came from chunk c.
FirstFrom(k, c) ==
  CHOOSE n \in 1 .. Len(members[k]) :
    ChunkOfMember(k, n) = c /\ \A j \in 1 .. (n - 1) : ChunkOfMember(k, j) # c

\* C24: the sourceChunks of every merged entry, and of its node, lists each
\* chunk ID of the entities merged into it once, no other ID, in the order
\* the chunks first contributed; its confidence is the greatest confidence
\* among those entities.
C24_SourceChunksAndConfidence ==
  /\ \A k \in 1 .. Len(merged) :
       LET sc == merged[k].sourceChunks
       IN /\ \A a, b \in 1 .. Len(sc) : a # b => sc[a] # sc[b]
          /\ {sc[a] : a \in 1 .. Len(sc)} =
               {ChunkOfMember(k, n) : n \in 1 .. Len(members[k])}
          /\ \A a, b \in 1 .. Len(sc) : a < b => FirstFrom(k, sc[a]) < FirstFrom(k, sc[b])
          /\ \E n \in 1 .. Len(members[k]) : merged[k].confidence = ConfidenceOfMember(k, n)
          /\ \A n \in 1 .. Len(members[k]) : merged[k].confidence >= ConfidenceOfMember(k, n)
  /\ graphPc \in {"edges", "done"} =>
       \A k \in 1 .. Len(nodes) :
         /\ nodes[k].sourceChunks = merged[k].sourceChunks
         /\ nodes[k].confidence = merged[k].confidence

\* C24 witness: three entities, two of them from one chunk, were merged into
\* a node that lists two chunks and has a confidence above its founder's.
C24_Witness ==
  /\ graphPc = "edges"
  /\ \E k \in 1 .. Len(nodes) :
       /\ Len(members[k]) = 3
       /\ ChunkOfMember(k, 1) = 1 /\ ChunkOfMember(k, 2) = 1 /\ ChunkOfMember(k, 3) = 2
       /\ nodes[k].sourceChunks = <<1, 2>>
       /\ ConfidenceOfMember(k, 1) = 5 /\ nodes[k].confidence = 9

\* The relationships buildGraph has gone through, and the (type, source,
\* target) triple each resolves to (0: the endpoint resolves to no node).
Rel(r) == extractions.relationships[r]
Processed == 1 .. relAt
TripleOfRel(r) ==
  <<Rel(r).type, findNodeByName(Rel(r).sourceName, nodes),
    findNodeByName(Rel(r).targetName, nodes)>>
TripleOfEdge(e) == <<edges[e].type, edges[e].source, edges[e].target>>
Resolved(r) == TripleOfRel(r)[2] # 0 /\ TripleOfRel(r)[3] # 0

\* C25: no two edges have the same (type, source, target); every edge comes
\* from the first relationship in input order that resolves to its triple and
\* has that relationship's confidence and sourceChunk; every relationship that
\* resolves has exactly one edge for its triple.
C25_EdgesUniqueFirstWins ==
  /\ \A a, b \in 1 .. Len(edges) : a # b => TripleOfEdge(a) # TripleOfEdge(b)
  /\ \A e \in 1 .. Len(edges) :
       \E r \in Processed :
         /\ Resolved(r) /\ TripleOfRel(r) = TripleOfEdge(e)
         /\ \A q \in 1 .. (r - 1) : TripleOfRel(q) # TripleOfRel(r)
         /\ edges[e].confidence = Rel(r).confidence
         /\ edges[e].sourceChunk = Rel(r).chunk
  /\ \A r \in Processed :
       Resolved(r) =>
         Cardinality({e \in 1 .. Len(edges) : TripleOfEdge(e) = TripleOfRel(r)}) = 1

\* C25 witness: two relationships of different chunks and confidences
\* resolved to one triple, and the single edge has the first one's values.
C25_Witness ==
  /\ graphPc = "done" /\ relAt = 2 /\ Len(edges) = 1
  /\ Resolved(1) /\ TripleOfRel(1) = TripleOfRel(2)
  /\ Rel(1).confidence # Rel(2).confidence /\ Rel(1).chunk # Rel(2).chunk
  /\ edges[1].confidence = Rel(1).confidence /\ edges[1].sourceChunk = Rel(1).chunk

\* No node has a name the endpoint name matches: neither the same normalized
\* name nor one of similarity >= 0.7.
NoNodeFor(name) ==
  \A k \in 1 .. Len(nodes) : calculateSimilarity(name, nodes[k].name) < 7
Unresolved(rel) == NoNodeFor(rel.sourceName) \/ NoNodeFor(rel.targetName)

NodeIds == {nodes[k].id : k \in 1 .. Len(nodes)}

\* The edge loop goes over a relationship with an endpoint no node matches.
OverUnresolved ==
  /\ graphPc = "edges" /\ relAt < Len(extractions.relationships)
  /\ relAt' = relAt + 1
  /\ Unresolved(extractions.relationships[relAt + 1])

\* C26: the source and target of every edge are IDs of nodes of the graph;
\* going over a relationship with an endpoint that resolves to no node adds no
\* edge, changes no node and lets buildGraph go on.
C26_EdgesOnlyBetweenNodes ==
  /\ [](\A e \in 1 .. Len(edges) :
          edges[e].source \in NodeIds /\ edges[e].target \in NodeIds)
  /\ [][OverUnresolved => (edges' = edges /\ nodes' = nodes /\ graphPc' = "edges")]_vars

\* C26 witness: buildGraph returned a graph with nodes and one edge after
\* going over a relationship whose source resolves and whose target does not.
C26_Witness ==
  /\ graphPc = "done" /\ Len(nodes) >= 1 /\ Len(edges) = 1
  /\ \E r \in Processed : NoNodeFor(Rel(r).targetName) /\ ~NoNodeFor(Rel(r).sourceName)

\* C27: the chunks of a document, in index order, are numbered from 0; the
\* first starts at offset 0, each next one starts where the one before
\* ends, and every chunk ends after it starts.
C27_OffsetsContiguous ==
  /\ \A k \in 1 .. Len(chunks) : chunks[k].index = k - 1 /\ chunks[k].end > chunks[k].start
  /\ Len(chunks) >= 1 => chunks[1].start = 0
  /\ \A k \in 1 .. (Len(chunks) - 1) : chunks[k + 1].start = chunks[k].end

\* C27 witness: buildChunks returned three chunks for a document.
C27_Witness == chunkPc = "done" /\ Len(chunks) = 3 /\ chunks[3].start > chunks[2].start

\* The paragraphs of the document: the places of its non-blank parts, in order.
NonBlank == {k \in 1 .. Len(parts) : parts[k] > 0}

\* The length of a chunk's text: its paragraphs and the "\n\n" between them.
RECURSIVE SumOfLengths(_)
SumOfLengths(text) == IF text = <<>> THEN 0 ELSE parts[Head(text)] + SumOfLengths(Tail(text))
LengthOfChunk(k) == SumOfLengths(chunks[k].text) + 2 * (Len(chunks[k].text) - 1)

\* C28: the text of every chunk is at most chunkSize long, unless the chunk
\* is one paragraph that is longer than chunkSize by itself.
C28_ChunkSizeBound ==
  \A k \in 1 .. Len(chunks) :
    \/ LengthOfChunk(k) <= chunkSize
    \/ Len(chunks[k].text) = 1 /\ parts[chunks[k].text[1]] > chunkSize

\* C28 witness: a returned chunking holds a chunk of two paragraphs within
\* the size and a chunk of one paragraph above it.
C28_Witness ==
  /\ chunkPc = "done"
  /\ \E k \in 1 .. Len(chunks) : Len(chunks[k].text) = 2 /\ LengthOfChunk(k) <= chunkSize
  /\ \E k \in 1 .. Len(chunks) : Len(chunks[k].text) = 1 /\ LengthOfChunk(k) > chunkSize

\* The paragraphs of the chunks, chunk after chunk.
RECURSIVE JoinChunks(_)
JoinChunks(cs) == IF cs = <<>> THEN <<>> ELSE Head(cs).text \o JoinChunks(Tail(cs))

\* C29: when buildChunks returns, the chunk texts joined in order are the
\* non-blank paragraphs of the document in their original order, each one
\* once; while it runs, the chunks and the buffer together are the
\* paragraphs visited so far.
C29_ChunksCoverParagraphs ==
  LET joined == JoinChunks(chunks) \o buffer
  IN /\ \A a, b \in 1 .. Len(joined) : a < b => joined[a] < joined[b]
     /\ \A a \in 1 .. Len(joined) : joined[a] \in NonBlank
     /\ Len(joined) = paraAt
     /\ chunkPc = "done" =>
          /\ buffer = <<>>
          /\ {joined[a] : a \in 1 .. Len(joined)} = NonBlank

\* C29 witness: a document with a blank part between paragraphs was
\* returned in two chunks.
C29_Witness ==
  /\ chunkPc = "done" /\ Len(chunks) = 2 /\ Len(parts) = 3
  /\ parts[2] = 0 /\ parts[1] > 0 /\ parts[3] > 0
  /\ JoinChunks(chunks) = <<1, 3>>

\* The place in the event stream of the terminal event (0: none yet).
TerminalAt ==
  IF \E k \in 1 .. Len(events) : Terminal(events[k])
    THEN CHOOSE k \in 1 .. Len(events) : Terminal(events[k])
    ELSE 0

\* C30: the calls of a run are the answer call (an aggregation call in the
\* recursive modes) and then at most the rewrite call; chunking comes before
\* the first of them; the aggregation call is issued only when the pool has
\* returned and every sub-call issued has completed; the rewrite call is
\* issued only after the call before it has returned its answer; the
\* terminal event comes after every call was issued, a result only when
\* every call has returned, and in the recursive modes a run that ends with a
\* result has made exactly one aggregation call.
C30_StagesInOrder ==
  /\ Len(calls) <= 2
  /\ calls # <<>> =>
       /\ calls[1].kind = (IF Recursive THEN "aggregate" ELSE "answer")
       /\ mode # "base" => chunked
  /\ Len(calls) = 2 =>
       calls[2].kind = "rewrite" /\ calls[1].content \notin {"pending", "rejected"}
  /\ AggregateCalls # {} =>
       /\ Recursive /\ poolPc = "returned"
       /\ \A i \in SubcallsIssued : proc[i] = "fulfilled"
       /\ Len(results) = Cardinality(SubcallsIssued)
  /\ TerminalAt > 0 => \A k \in 1 .. Len(calls) : calls[k].at < TerminalAt
  /\ ResultCount = 1 =>
       /\ calls # <<>>
       /\ \A k \in 1 .. Len(calls) : calls[k].content \notin {"pending", "rejected"}
       /\ Recursive => Cardinality(AggregateCalls) = 1

\* C30 witness: an rlm run made two sub-calls, the aggregation call and the
\* rewrite call, and ended with a result.
C30_Witness ==
  /\ mode = "rlm" /\ ResultCount = 1
  /\ Cardinality(SubcallsIssued) = 2 /\ Len(calls) = 2
  /\ calls[1].kind = "aggregate" /\ calls[2].kind = "rewrite"

\* What the responses the oracle gave for each chunk determine by themselves:
\* the results in chunk order.
ByIndex == [k \in 1 .. nItems |-> PoolResult(k - 1, procResult[k - 1])]

CompletionHandled == completed' = completed + 1

\* C32: every step in which the pool handles a completion while an item is
\* unstarted also starts the next unstarted item, and the items started are
\* at every moment exactly those below nextIndex (increasing index order).
C32_ContinuousRefill ==
  [][/\ (CompletionHandled /\ nextIndex < nItems) =>
          /\ proc[nextIndex] = "idle"
          /\ proc'[nextIndex] = "pending"
          /\ nextIndex' = nextIndex + 1
     /\ \A i \in Indices : proc'[i] # "idle" <=> i < nextIndex']_vars

\* C32 witness: the third of three items was started after the first
\* completed, while the second (of the same initial batch) is still running.
C32_Witness ==
  /\ impl = "worker" /\ nItems = 3 /\ concurrency = 2
  /\ proc[0] = "fulfilled" /\ proc[1] = "pending" /\ proc[2] = "pending"

\* C33: under fair scheduling (every oracle call settles and every
\* continuation runs) every run of a validated request comes to a state where
\* the stream is closed and its last event is a `result` or an `error`,
\* whatever the value of body.mode.
C33_EveryRunEndsWithTerminalEvent ==
  <>(closed /\ events # <<>> /\ Terminal(events[Len(events)]))

\* C34: once a processor invocation of a streamWithPool call has failed, the
\* consumer's iteration eventually throws.
C34_StreamFailureReachesConsumer == [](AnyRejected => <>(genPc = "thrown"))

\* C35: when no processor invocation has failed, a processWithPool call that
\* has returned has invoked the processor for every index 0 .. n-1 and
\* returns exactly n results, one per index; with zero items it returns the
\* empty list and has invoked nothing.
C35_OneInvocationPerItem ==
  (poolPc = "returned" /\ ~AnyRejected) =>
    /\ \A i \in Indices : proc[i] = (IF i < nItems THEN "fulfilled" ELSE "idle")
    /\ Len(results) = nItems
    /\ \A k \in 1 .. Len(results) : results[k].index = k - 1
    /\ nItems = 0 => (results = <<>> /\ nextIndex = 0)

\* C36: once the processWithPool invocation has failed with a processor's
\* failure, no step starts a processor invocation for an unstarted item.
C36_NoStartAfterFailure ==
  [][poolPc = "thrown" => \A i \in Indices : proc[i] = "idle" => proc'[i] = "idle"]_vars

\* The nodes an endpoint name matches exactly (same normalized name) and the
\* nodes it matches at all (similarity >= 0.7), by node ID.
NormalizedNameOf(k) == normalizeEntityName(nodes[k].name)
ExactNodes(name) ==
  {k \in 1 .. Len(nodes) : NormalizedNameOf(k) = normalizeEntityName(name)}
SimilarNodes(name) ==
  {k \in 1 .. Len(nodes) : calculateSimilarity(name, nodes[k].name) >= 7}
Least(S) == CHOOSE k \in S : \A j \in S : k <= j
Greatest(S) == CHOOSE k \in S : \A j \in S : j <= k
LastNamedLike(k) ==
  Greatest({j \in 1 .. Len(nodes) : NormalizedNameOf(j) = NormalizedNameOf(k)})

\* The nodes the claim as stated allows for an endpoint: a node of the same
\* normalized name, else the first node in insertion order that is similar.
ClaimedNodes(name) ==
  IF ExactNodes(name) # {} THEN ExactNodes(name)
  ELSE IF SimilarNodes(name) # {} THEN {Least(SimilarNodes(name))}
  ELSE {}

\* The node of the amended claim: the last node of the same normalized name,
\* else the node the map holds under the first similar name, which is the
\* last node created with that name (0: none).
ChosenNode(name) ==
  IF ExactNodes(name) # {} THEN Greatest(ExactNodes(name))
  ELSE IF SimilarNodes(name) # {} THEN LastNamedLike(Least(SimilarNodes(name)))
  ELSE 0

\* C37 (as stated): every relationship gone through whose endpoints both
\* match a node has an edge of its type from a node of the same normalized
\* name as its source, or else from the first similar node in insertion
\* order, to a node chosen in the same way for its target.
C37_ExactThenFirstSimilarNode ==
  \A r \in Processed :
    (ClaimedNodes(Rel(r).sourceName) # {} /\ ClaimedNodes(Rel(r).targetName) # {}) =>
      \E e \in 1 .. Len(edges) :
        /\ edges[e].type = Rel(r).type
        /\ edges[e].source \in ClaimedNodes(Rel(r).sourceName)
        /\ edges[e].target \in ClaimedNodes(Rel(r).targetName)

\* C37 (amended): every edge joins the nodes chosen for the endpoints of a
\* relationship gone through, and every such relationship with both nodes
\* chosen has that edge: an exact match is chosen over any similar node, and
\* without one the node under the first similar name of the lookup map, even
\* if a later name is more similar.
C37_ExactThenFirstSimilarName ==
  /\ \A e \in 1 .. Len(edges) :
       \E r \in Processed :
         /\ edges[e].type = Rel(r).type
         /\ edges[e].source = ChosenNode(Rel(r).sourceName)
         /\ edges[e].target = ChosenNode(Rel(r).targetName)
  /\ \A r \in Processed :
       (ChosenNode(Rel(r).sourceName) # 0 /\ ChosenNode(Rel(r).targetName) # 0) =>
         \E e \in 1 .. Len(edges) :
           /\ edges[e].type = Rel(r).type
           /\ edges[e].source = ChosenNode(Rel(r).sourceName)
           /\ edges[e].target = ChosenNode(Rel(r).targetName)

\* C37 witness: the source name has similarity 0.75 to the first node and 0.8
\* to the second, matches neither exactly, and the edge starts at the first.
C37_Witness ==
  /\ graphPc = "done" /\ Len(nodes) = 2 /\ Len(edges) = 1 /\ relAt = 1
  /\ ExactNodes(Rel(1).sourceName) = {}
  /\ calculateSimilarity(Rel(1).sourceName, nodes[1].name) = 7
  /\ calculateSimilarity(Rel(1).sourceName, nodes[2].name) = 8
  /\ edges[1].source = 1

\* The nodes that share their normalized name with a node created later.
Shadowed == {k \in 1 .. Len(nodes) : LastNamedLike(k) # k}

\* C39: nodes that share a normalized name differ in type; a relationship
\* whose endpoints name such nodes exactly has its edge at the last node
\* created with the name, whatever the types; and no edge starts or ends at
\* an earlier node of that name.
C39_SharedNameResolvesToLastNode ==
  /\ \A a, b \in 1 .. Len(nodes) :
       (a # b /\ NormalizedNameOf(a) = NormalizedNameOf(b)) => nodes[a].type # nodes[b].type
  /\ \A r \in Processed :
       (ExactNodes(Rel(r).sourceName) # {} /\ ExactNodes(Rel(r).targetName) # {}) =>
         \E e \in 1 .. Len(edges) :
           /\ edges[e].type = Rel(r).type
           /\ edges[e].source = Greatest(ExactNodes(Rel(r).sourceName))
           /\ edges[e].target = Greatest(ExactNodes(Rel(r).targetName))
  /\ \A e \in 1 .. Len(edges) :
       edges[e].source \notin Shadowed /\ edges[e].target \notin Shadowed

\* C39 witness: a party and a date are both named "Acme"; a relationship
\* whose target is "Acme" has its edge at the date, the node created last.
C39_Witness ==
  /\ graphPc = "done" /\ Len(nodes) = 2 /\ Shadowed = {1}
  /\ nodes[1].type = "party" /\ nodes[2].type = "date"
  /\ \E r \in Processed : ExactNodes(Rel(r).targetName) = {1, 2}
  /\ Len(edges) = 1 /\ edges[1].target = 2

\* Two entries of one type whose names have similarity >= 0.7.
TooClose(a, b) ==
  a.type = b.type /\ calculateSimilarity(a.name, b.name) >= 7

\* C38: at every moment of mergeEntities, and in the nodes it returns, no two
\* entries of one type have names of similarity >= 0.7; every step that
\* creates an entry creates it for a name below 0.7 against every entry of
\* its type created before.
C38_NoTwoSimilarNodesOfAType ==
  /\ [](\A a, b \in 1 .. Len(merged) : a # b => ~TooClose(merged[a], merged[b]))
  /\ [](\A a, b \in 1 .. Len(nodes) : a # b => ~TooClose(nodes[a], nodes[b]))
  /\ [][Len(merged') > Len(merged) =>
          \A k \in 1 .. Len(merged) : ~TooClose(merged'[Len(merged')], merged[k])]_vars

\* C38 witness: three entities of one type ended as two nodes with names
\* below the threshold, the third entity merged into the second node.
C38_Witness ==
  /\ graphPc = "edges" /\ entityAt = 3 /\ Len(nodes) = 2
  /\ nodes[1].type = nodes[2].type
  /\ calculateSimilarity(nodes[1].name, nodes[2].name) < 7
  /\ Len(members[2]) = 2

====
